---- MODULE Spec2Model ----
(***************************************************************************)
(* Model of the security / validation layer of the portfolio site: the     *)
(* in-memory rate limiter, the contact handler (honeypot, validation,      *)
(* sanitisation, outbound mail), the admin session (login, logout, verify),*)
(* the admin routes' guard and the image upload validation.                *)
(***************************************************************************)
EXTENDS Integers, Sequences, FiniteSets, TLC

VARIABLES
  now,             \* Date.now(), in milliseconds since the process started
  nticks,          \* number of clock advances taken so far (bounds the run)
  rateLimitStore,  \* Map key -> [count, resetTime]; key is <<prefix, ip>>
  env,             \* process.env, fixed when the process starts
  resp,            \* the response (and observable effects) of the last request
  winStart,        \* history: per key, start of the current window as the claims define it
  winCount,        \* history: per key, requests seen in that window
  jar,             \* per browser: the 'admin-token' cookie, or NoCookie
  session,         \* history: per browser, a successful login since the last logout
  docs,            \* the stored data documents (about, skills, projects, resume)
  files,           \* the uploaded files (set of stored file names)
  issued,          \* history: the tokens that successful logins issued
  inflight,        \* the requests that have read a document and not yet written it
  lastWritten,     \* history: per data file, the value of the last write that took effect
  pc               \* position of the single-request specifications

vars == <<now, nticks, rateLimitStore, env, resp, winStart, winCount, jar, session, docs, files,
          issued, inflight, lastWritten, pc>>

(***************************************************************************)
(* Bounds of the model                                                     *)
(***************************************************************************)
MaxTicks == 2      \* clock advances per run
MaxLen == 3        \* length of the strings enumerated for the sanitisers

(***************************************************************************)
(* JavaScript strings are sequences of characters; the characters that     *)
(* matter to the code are spelled out.                                     *)
(***************************************************************************)
NUL == "NUL"       \* \x00
DEL == "DEL"       \* \x7F
TAB == "\t"
LF == "\n"
CR == "\r"
QUOT == "\""

\* String.prototype.trim and the regex class \s
Whitespace == {" ", TAB, LF, CR}

\* the regex class [\x00-\x1F\x7F]
ControlChars == {NUL, TAB, LF, CR, DEL}

Min(a, b) == IF a < b THEN a ELSE b

RECURSIVE TrimStart(_)
TrimStart(s) ==
  IF s = <<>> THEN <<>>
  ELSE IF Head(s) \in Whitespace THEN TrimStart(Tail(s)) ELSE s

RECURSIVE TrimEnd(_)
TrimEnd(s) ==
  IF s = <<>> THEN <<>>
  ELSE IF s[Len(s)] \in Whitespace THEN TrimEnd(SubSeq(s, 1, Len(s) - 1)) ELSE s

Trim(s) == TrimEnd(TrimStart(s))

Slice(s, n) == SubSeq(s, 1, Min(n, Len(s)))

RemoveChars(s, set) == SelectSeq(s, LAMBDA c : c \notin set)

StartsWith(s, p) == Len(s) >= Len(p) /\ SubSeq(s, 1, Len(p)) = p

(***************************************************************************)
(* JavaScript values as they arrive in a JSON body: a type tag and, for a  *)
(* string, its characters.                                                 *)
(***************************************************************************)
JsStr(s) == [t |-> "string", s |-> s]
JsUndefined == [t |-> "undefined", s |-> <<>>]
JsNull == [t |-> "null", s |-> <<>>]
JsNumber == [t |-> "number", s |-> <<>>]     \* a non-zero number such as 123
JsObject == [t |-> "object", s |-> <<>>]     \* an object such as {"x": 1}
JsArray(items) == [t |-> "array", s |-> items]

IsString(v) == v.t = "string"
IsArray(v) == v.t = "array"     \* Array.isArray(v)

\* ToBoolean: what `!v` and `v &&` test
Truthy(v) ==
  \/ v.t = "string" /\ v.s # <<>>
  \/ v.t \in {"number", "object", "array"}

(***************************************************************************)
(* Sanitisers of the security library                                      *)
(***************************************************************************)
\* sanitizeString(input, maxLength): trim, cut, then drop control characters
sanitizeString(input, maxLength) ==
  IF ~IsString(input) THEN <<>>
  ELSE RemoveChars(Slice(Trim(input.s), maxLength), ControlChars)

\* sanitizeEmailHeader with the removal of '<' and '>' left out
sanitizeEmailHeader_keepAngle(value, maxLength) ==
  IF ~IsString(value) THEN <<>>
  ELSE Slice(Trim(RemoveChars(value.s, {CR, LF})), maxLength)

\* sanitizeEmailHeader(value, maxLength): drop CR/LF, drop '<' '>', trim, cut
sanitizeEmailHeader(value, maxLength) ==
  IF ~IsString(value) THEN <<>>
  ELSE Slice(Trim(RemoveChars(RemoveChars(value.s, {CR, LF}), {"<", ">"})), maxLength)

\* the replacement map of escapeHtml with the entry for '&' missing
HtmlEntity_noAmp(c) ==
  CASE c = "<" -> <<"&", "l", "t", ";">>
    [] c = ">" -> <<"&", "g", "t", ";">>
    [] c = QUOT -> <<"&", "q", "u", "o", "t", ";">>
    [] c = "'" -> <<"&", "#", "0", "3", "9", ";">>
    [] OTHER -> <<c>>

\* the replacement map of escapeHtml; other characters are kept
HtmlEntity(c) ==
  CASE c = "&" -> <<"&", "a", "m", "p", ";">>
    [] c = "<" -> <<"&", "l", "t", ";">>
    [] c = ">" -> <<"&", "g", "t", ";">>
    [] c = QUOT -> <<"&", "q", "u", "o", "t", ";">>
    [] c = "'" -> <<"&", "#", "0", "3", "9", ";">>
    [] OTHER -> <<c>>

RECURSIVE EscapeChars(_)
EscapeChars(s) ==
  IF s = <<>> THEN <<>> ELSE HtmlEntity(Head(s)) \o EscapeChars(Tail(s))

\* escapeHtml(text)
escapeHtml(text) ==
  IF ~IsString(text) THEN <<>> ELSE EscapeChars(text.s)

\* escapedMessage.replace(/\n/g, '<br>')
RECURSIVE ReplaceNewlines(_)
ReplaceNewlines(s) ==
  IF s = <<>> THEN <<>>
  ELSE (IF Head(s) = LF THEN <<"<", "b", "r", ">">> ELSE <<Head(s)>>) \o ReplaceNewlines(Tail(s))

\* /^[^\s@]+@[^\s@]+\.[^\s@]+$/.test(email)
EmailPattern(s) ==
  \E i \in 1..Len(s) : \E j \in 1..Len(s) :
    /\ s[i] = "@" /\ s[j] = "."
    /\ 1 < i /\ i + 1 < j /\ j < Len(s)
    /\ \A k \in 1..Len(s) : s[k] \notin Whitespace /\ (s[k] = "@" => k = i)

(***************************************************************************)
(* Rate limiter                                                            *)
(***************************************************************************)
CLEANUP_THRESHOLD == 1000
CONTACT_WINDOW == 60 * 60 * 1000
CONTACT_MAX == 13
LOGIN_WINDOW == 15 * 60 * 1000
LOGIN_MAX == 5

\* variant: the window is over as soon as the clock reaches resetTime
WindowExpired_inclusive(record, t) == record.resetTime <= t

\* record.resetTime < now
WindowExpired(record, t) == record.resetTime < t

\* the limit test with '>' in place of '>='
LimitReached_offByOne(record, maxRequests) == record.count > maxRequests

\* record.count >= maxRequests
LimitReached(record, maxRequests) == record.count >= maxRequests

\* `${prefix}:${ip}`
RateLimitKey(prefix, ip) == <<prefix, ip>>

\* variant: the clean-up empties the map
CleanUp_dropAll(store, t) ==
  IF Cardinality(DOMAIN store) > CLEANUP_THRESHOLD
  THEN [k \in {} |-> [count |-> 0, resetTime |-> 0]]
  ELSE store

\* the periodic clean-up of expired entries once the map holds more than 1000
CleanUp(store, t) ==
  IF Cardinality(DOMAIN store) > CLEANUP_THRESHOLD
  THEN [k \in {k2 \in DOMAIN store : ~WindowExpired(store[k2], t)} |-> store[k]]
  ELSE store

\* rateLimit(ip, prefix, windowMs, maxRequests): the new store and the result
rateLimit(store, t, ip, prefix, windowMs, maxRequests) ==
  LET key == RateLimitKey(prefix, ip)
      cleaned == CleanUp(store, t)
  IN IF key \notin DOMAIN store \/ WindowExpired(store[key], t)
     THEN [store |-> (key :> [count |-> 1, resetTime |-> t + windowMs]) @@ cleaned,
           result |-> [allowed |-> TRUE, remaining |-> maxRequests - 1,
                       resetTime |-> t + windowMs]]
     ELSE IF LimitReached(store[key], maxRequests)
     THEN [store |-> cleaned,
           result |-> [allowed |-> FALSE, remaining |-> 0,
                       resetTime |-> store[key].resetTime]]
     ELSE [store |-> [cleaned EXCEPT ![key].count = @ + 1],
           result |-> [allowed |-> TRUE,
                       remaining |-> maxRequests - (store[key].count + 1),
                       resetTime |-> store[key].resetTime]]

\* variant: one more login attempt per window
rateLimitLogin_sixAttempts(store, t, ip) ==
  rateLimit(store, t, ip, "login", LOGIN_WINDOW, LOGIN_MAX + 1)

rateLimitLogin(store, t, ip) == rateLimit(store, t, ip, "login", LOGIN_WINDOW, LOGIN_MAX)

rateLimitContact(store, t, ip) == rateLimit(store, t, ip, "contact", CONTACT_WINDOW, CONTACT_MAX)

NoHeader == "none"

\* getClientIP(request): first x-forwarded-for entry, else x-real-ip, else 'unknown'
getClientIP(req) ==
  IF req.forwarded # NoHeader THEN req.forwarded
  ELSE IF req.realIP # NoHeader THEN req.realIP
  ELSE "unknown"

NoLength == -1     \* the request carries no content-length header

\* checkContentLength(request, maxSize): TRUE when the 413 response is returned
checkContentLength(req, maxSize) ==
  req.contentLength # NoLength /\ req.contentLength > maxSize

\* parseJsonBody(request): the error message, or "" when the body is accepted
parseJsonBody(req) ==
  IF req.body.k = "invalid" THEN "Invalid JSON"
  ELSE IF req.body.k \in {"null", "primitive"} THEN "Invalid request"
  ELSE ""

(***************************************************************************)
(* Responses: status, JSON body and the effects the handler had            *)
(***************************************************************************)
NoRequest == [route |-> "none"]
NoRateLimit == [allowed |-> FALSE, remaining |-> -1, resetTime |-> -1]

NoData == [k |-> "none"]

BaseResp ==
  [route |-> "none",          \* the route that answered
   req |-> NoRequest,         \* the request it answered
   ip |-> "none",             \* getClientIP(request), where the handler computes it
   status |-> 0,
   error |-> "",              \* body.error
   success |-> FALSE,         \* body.success
   message |-> "",            \* body.message
   authenticated |-> FALSE,   \* body.authenticated
   rl |-> NoRateLimit,        \* result of the rate limiter
   bodyRead |-> FALSE,        \* request.json() / request.formData() was called
   verifyCalled |-> FALSE,    \* verifyPassword was called
   cookieSet |-> FALSE,       \* the response sets the admin-token cookie
   mails |-> <<>>,            \* the mails handed to transporter.sendMail that were sent
   stored |-> {},             \* the files written by the request
   data |-> NoData]           \* the document the response carries

(***************************************************************************)
(* POST /api/contact                                                       *)
(***************************************************************************)
MAX_BODY_SIZE == 10 * 1024
SubjectPrefix == <<"C", "o", "n", "t", "a", "c", "t", " ", "F", "o", "r", "m", ":", " ">>
MessageSent == "Message sent successfully!"

\* website && typeof website === 'string' && website.trim().length > 0
HoneypotFilled(website) ==
  Truthy(website) /\ IsString(website) /\ Len(Trim(website.s)) > 0

\* the honeypot answer as an explicit rejection
HoneypotResponse_reject(r) == [r EXCEPT !.status = 400, !.error = "Spam detected"]

\* the silent acceptance of a honeypot submission
HoneypotResponse(r) == [r EXCEPT !.status = 200, !.success = TRUE, !.message = MessageSent]

\* variant: the field is not trimmed before it is tested
FieldMissing_untrimmed(v) == ~Truthy(v) \/ ~IsString(v)

\* !name || typeof name !== 'string' || name.trim().length === 0
FieldMissing(v) == ~Truthy(v) \/ ~IsString(v) \/ Len(Trim(v.s)) = 0

\* !email || typeof email !== 'string' || !pattern.test(email)
EmailInvalid(v) == ~Truthy(v) \/ ~IsString(v) \/ ~EmailPattern(v.s)

\* !smtpHost || !smtpUser || !smtpPassword
SmtpMissing(environ) ==
  environ.SMTP_HOST = <<>> \/ environ.SMTP_USER = <<>> \/ environ.SMTP_PASSWORD = <<>>

\* the mailOptions object; the html body is kept as the values put into its slots
MailOptions(environ, safeName, safeEmail, sanitizedMessage) ==
  [from |-> <<QUOT>> \o safeName \o <<QUOT, " ", "<">> \o environ.SMTP_USER \o <<">">>,
   replyTo |-> safeEmail,
   to |-> IF environ.CONTACT_EMAIL # <<>> THEN environ.CONTACT_EMAIL ELSE environ.SMTP_USER,
   subject |-> SubjectPrefix \o safeName,
   text |-> [name |-> safeName, email |-> safeEmail, message |-> sanitizedMessage],
   html |-> [name |-> escapeHtml(JsStr(safeName)),
             email |-> escapeHtml(JsStr(safeEmail)),
             message |-> ReplaceNewlines(escapeHtml(JsStr(sanitizedMessage)))]]

\* the handler after the body was parsed
ContactBody(environ, req, r) ==
  LET b == req.body
      sanitizedName == sanitizeString(b.name, 100)
      sanitizedEmail == sanitizeString(b.email, 200)
      sanitizedMessage == sanitizeString(b.message, 5000)
      safeName == sanitizeEmailHeader(JsStr(sanitizedName), 100)
      safeEmail == sanitizeEmailHeader(JsStr(sanitizedEmail), 200)
  IN IF HoneypotFilled(b.website)
     THEN HoneypotResponse(r)
     ELSE IF FieldMissing(b.name)
     THEN [r EXCEPT !.status = 400, !.error = "Name is required"]
     ELSE IF EmailInvalid(b.email)
     THEN [r EXCEPT !.status = 400, !.error = "Valid email is required"]
     ELSE IF FieldMissing(b.message)
     THEN [r EXCEPT !.status = 400, !.error = "Message is required"]
     ELSE IF Len(sanitizedName) = 0 \/ Len(sanitizedEmail) = 0 \/ Len(sanitizedMessage) = 0
     THEN [r EXCEPT !.status = 400, !.error = "Invalid input"]
     ELSE IF SmtpMissing(environ)
     THEN [r EXCEPT !.status = 500,
             !.error = "Email service is not configured. Please contact the administrator."]
     ELSE IF ~req.verifyOk
     THEN [r EXCEPT !.status = 500,
             !.error = "Email service configuration error. Please try again later."]
     ELSE IF ~req.sendOk
     THEN [r EXCEPT !.status = 500,
             !.error = "Failed to send message. Please try again later."]
     ELSE [r EXCEPT !.status = 200, !.success = TRUE, !.message = MessageSent,
             !.mails = <<MailOptions(environ, safeName, safeEmail, sanitizedMessage)>>]

\* variant: the size of the request is tested before the rate limiter is called
ContactPOST_sizeFirst(store, t, environ, req) ==
  LET clientIP == getClientIP(req)
      limited == rateLimitContact(store, t, clientIP)
      r == [BaseResp EXCEPT !.route = "contact", !.req = req, !.ip = clientIP]
      parseError == parseJsonBody(req)
  IN IF checkContentLength(req, MAX_BODY_SIZE)
     THEN [store |-> store, resp |-> [r EXCEPT !.status = 413, !.error = "Request too large"]]
     ELSE [store |-> limited.store,
           resp |->
             IF ~limited.result.allowed
             THEN [r EXCEPT !.rl = limited.result, !.status = 429,
                     !.error = "Too many contact form submissions. Please try again later."]
             ELSE IF parseError # ""
             THEN [r EXCEPT !.rl = limited.result, !.status = 400, !.error = parseError,
                     !.bodyRead = TRUE]
             ELSE ContactBody(environ, req, [r EXCEPT !.rl = limited.result, !.bodyRead = TRUE])]

\* export async function POST(request): the new store and the response
ContactPOST(store, t, environ, req) ==
  LET clientIP == getClientIP(req)
      limited == rateLimitContact(store, t, clientIP)
      r == [BaseResp EXCEPT !.route = "contact", !.req = req, !.ip = clientIP,
                            !.rl = limited.result]
      parseError == parseJsonBody(req)
  IN [store |-> limited.store,
      resp |->
        IF ~limited.result.allowed
        THEN [r EXCEPT !.status = 429,
                !.error = "Too many contact form submissions. Please try again later."]
        ELSE IF checkContentLength(req, MAX_BODY_SIZE)
        THEN [r EXCEPT !.status = 413, !.error = "Request too large"]
        ELSE IF parseError # ""
        THEN [r EXCEPT !.status = 400, !.error = parseError, !.bodyRead = TRUE]
        ELSE ContactBody(environ, req, [r EXCEPT !.bodyRead = TRUE])]

(***************************************************************************)
(* Inputs                                                                  *)
(***************************************************************************)
ClientIP == "10.0.0.1"
ClientIPs == {ClientIP, "unknown"}
Keys == {"contact", "login"} \X ClientIPs

\* the header combinations a request can carry
IpHeaders ==
  {[forwarded |-> ClientIP, realIP |-> NoHeader],
   [forwarded |-> NoHeader, realIP |-> ClientIP],
   [forwarded |-> NoHeader, realIP |-> NoHeader]}

Alphabet == {"a", "<", ">", "&", QUOT, "'", " ", LF, CR, NUL}
Strs(n) == UNION {[1..k -> Alphabet] : k \in 0..n}

AdminPassword == <<"p", "w", "d">>
NoHash == [set |-> FALSE, of |-> <<>>]
HashOf(password) == [set |-> TRUE, of |-> password]    \* a bcrypt hash of the password

EnvFull ==
  [SMTP_HOST |-> <<"h">>, SMTP_USER |-> <<"u", "@", "x", ".", "y">>, SMTP_PASSWORD |-> <<"p">>,
   CONTACT_EMAIL |-> <<"c", "@", "x", ".", "y">>,
   JWT_SECRET |-> "s3cret", ADMIN_PASSWORD_HASH |-> HashOf(AdminPassword),
   JWT_EXPIRATION_TIME |-> [n |-> 24, u |-> "h"],
   VERCEL |-> FALSE,                  \* set on the serverless platform
   BLOB_READ_WRITE_TOKEN |-> FALSE]   \* set when uploads go to the blob store
EnvNoContact == [EnvFull EXCEPT !.CONTACT_EMAIL = <<>>]
EnvNoSmtp == [EnvFull EXCEPT !.SMTP_PASSWORD = <<>>]
Envs == {EnvFull, EnvNoContact, EnvNoSmtp}

GoodName == JsStr(<<"a">>)
GoodEmail == JsStr(<<"a", "@", "b", ".", "c">>)
GoodMessage == JsStr(<<"a", " ", "a">>)
NonStrings == {JsUndefined, JsNull, JsNumber, JsObject}

EmailStrings ==
  {x \o <<"@", "b", ".", "c">> : x \in Strs(MaxLen - 1)}
    \cup {<<"a", "b">>, <<"a", "@", "b">>, <<"a", "@", "b", ".">>, <<"a", "@", ".", "c">>,
          <<"a", "@", "@", "b", ".", "c">>, <<"a", "@", "b", ".", "c", ".", "d">>,
          <<"a", "@", "b", ".", "c", " ">>}

ObjectBody(name, email, message, website) ==
  [k |-> "object", name |-> name, email |-> email, message |-> message, website |-> website]

OtherBody(k) ==
  [k |-> k, name |-> JsUndefined, email |-> JsUndefined, message |-> JsUndefined,
   website |-> JsUndefined]

\* a request with a content-length header carries a body of that many bytes
ContactReq(h, len, body, verifyOk, sendOk) ==
  [route |-> "contact", forwarded |-> h.forwarded, realIP |-> h.realIP,
   contentLength |-> len, bodySize |-> IF len = NoLength THEN 100 ELSE len,
   body |-> body, verifyOk |-> verifyOk, sendOk |-> sendOk]

\* a request sent with chunked transfer encoding: no content-length header,
\* a body of `size` bytes (the JSON text may be padded to any size)
ChunkedReq(h, size, body, verifyOk, sendOk) ==
  [ContactReq(h, NoLength, body, verifyOk, sendOk) EXCEPT !.bodySize = size]

DirectHeaders == [forwarded |-> ClientIP, realIP |-> NoHeader]

\* bodies that vary one field over all short strings and the non-strings
FieldBodies ==
  {ObjectBody(n, GoodEmail, GoodMessage, JsUndefined) :
      n \in {JsStr(x) : x \in Strs(MaxLen)} \cup NonStrings}
  \cup {ObjectBody(GoodName, GoodEmail, m, JsUndefined) :
      m \in {JsStr(x) : x \in Strs(MaxLen)} \cup NonStrings}
  \cup {ObjectBody(GoodName, e, GoodMessage, JsUndefined) :
      e \in {JsStr(x) : x \in EmailStrings} \cup NonStrings}

WebsiteValues ==
  NonStrings \cup {JsStr(<<>>), JsStr(<<" ">>), JsStr(<<TAB, LF>>), JsStr(<<"a">>),
                   JsStr(<<" ", "a", " ">>), JsStr(<<NUL>>)}

\* bodies that vary the honeypot field against good and bad other fields
HoneypotBodies ==
  {ObjectBody(n, e, m, w) :
      n \in {GoodName, JsUndefined, JsStr(<<" ">>)},
      e \in {GoodEmail, JsNumber, JsStr(<<"a", "b">>)},
      m \in {GoodMessage, JsNull},
      w \in WebsiteValues}

\* requests of the single-request specification
ContactAllReqs ==
  {ContactReq(DirectHeaders, 100, b, TRUE, TRUE) : b \in FieldBodies \cup HoneypotBodies}
  \cup {ContactReq(h, len, b, v, sd) :
          h \in IpHeaders,
          len \in {NoLength, 100, MAX_BODY_SIZE, MAX_BODY_SIZE + 1},
          b \in {ObjectBody(GoodName, GoodEmail, GoodMessage, JsUndefined),
                 ObjectBody(GoodName, GoodEmail, GoodMessage, JsStr(<<"a">>)),
                 OtherBody("invalid"), OtherBody("null"), OtherBody("primitive"),
                 OtherBody("object")},
          v \in BOOLEAN, sd \in BOOLEAN}
  \cup {ChunkedReq(DirectHeaders, size, b, TRUE, TRUE) :
          size \in {100, MAX_BODY_SIZE, MAX_BODY_SIZE + 1},
          b \in {ObjectBody(GoodName, GoodEmail, GoodMessage, JsUndefined),
                 ObjectBody(GoodName, GoodEmail, GoodMessage, JsStr(<<"a">>)),
                 ObjectBody(JsUndefined, GoodEmail, GoodMessage, JsUndefined),
                 OtherBody("invalid")}}

\* requests of the long-running specification: one of each outcome class
ContactSeqReqs ==
  {ContactReq(h, len, b, TRUE, TRUE) :
          h \in {DirectHeaders, [forwarded |-> NoHeader, realIP |-> NoHeader]},
          len \in {100, MAX_BODY_SIZE + 1},
          b \in {ObjectBody(GoodName, GoodEmail, GoodMessage, JsUndefined),
                 ObjectBody(GoodName, GoodEmail, GoodMessage, JsStr(<<"a">>))}}

(***************************************************************************)
(* State                                                                   *)
(***************************************************************************)
EmptyStore == [k \in {} |-> [count |-> 0, resetTime |-> 0]]
NoWindow == -1
NoToken == [iat |-> -1, exp |-> -1, admin |-> FALSE, secret |-> "none"]
NoCookie == [value |-> NoToken, expires |-> -1]
Browsers == ClientIPs

(***************************************************************************)
(* Data documents: readDataFile / writeDataFile.  A document is kept as    *)
(* the JSON value that was written; JSON.stringify followed by JSON.parse  *)
(* returns a value read from JSON unchanged, with undefined fields absent. *)
(***************************************************************************)
BACKSLASH == "\\"
DataFiles == {"about.json", "skills.json", "projects.json", "resume.json"}

AboutDoc(title, intro, details, imageUrl) ==
  [k |-> "object", title |-> title, intro |-> intro, details |-> details, imageUrl |-> imageUrl]
Section(title, items) == [k |-> "object", title |-> title, items |-> items]
\* an array element that is null, and one that is a number: neither has fields
NullSection == [k |-> "null", title |-> JsUndefined, items |-> JsUndefined]
NumberSection == [k |-> "primitive", title |-> JsUndefined, items |-> JsUndefined]
SkillsDoc(sections) == [k |-> "object", sections |-> sections]
Item(id, type, title, x, y, images) ==
  [k |-> "object", id |-> id, type |-> type, title |-> title, x |-> x, y |-> y,
   images |-> images]
NullItem ==
  [k |-> "null", id |-> JsUndefined, type |-> JsUndefined, title |-> JsUndefined,
   x |-> JsUndefined, y |-> JsUndefined, images |-> JsUndefined]
ProjectsDoc(initialFiles, projectItems) ==
  [k |-> "object", initialFiles |-> initialFiles, projectItems |-> projectItems]
ResumeDoc(fileUrl, title) == [k |-> "object", fileUrl |-> fileUrl, title |-> title]

PROJECT == <<"p", "r", "o", "j", "e", "c", "t">>
BoardFile == Item(JsStr(<<"f", "1">>), JsStr(<<"f">>), JsStr(<<"F">>), JsNumber, JsNumber, JsUndefined)
ProjectP1 ==
  Item(JsStr(<<"p", "1">>), JsStr(PROJECT), JsStr(<<"P">>), JsUndefined, JsUndefined,
       JsArray(<<JsStr(<<"/", "u", "/", "p", "1">>)>>))
ProjectP2 ==
  Item(JsStr(<<"p", "2">>), JsStr(PROJECT), JsStr(<<"Q">>), JsUndefined, JsUndefined,
       JsArray(<<JsStr(<<"u", BACKSLASH, "p", "2">>)>>))

\* the documents the repository ships in app/data
InitDoc(f) ==
  CASE f = "about.json" -> AboutDoc(JsStr(<<"A">>), JsStr(<<"i">>), JsArray(<<>>), JsUndefined)
    [] f = "skills.json" -> SkillsDoc(JsArray(<<Section(JsStr(<<"S">>), JsArray(<<>>))>>))
    [] f = "projects.json" -> ProjectsDoc(JsArray(<<BoardFile>>), JsArray(<<ProjectP1>>))
    [] f = "resume.json" -> ResumeDoc(JsNull, JsStr(<<"R">>))

\* a file on disk and a value in the key-value store, each present or not; a
\* file that is missing or is no JSON counts as not present; kvUp tells
\* whether the key-value store answers
InitDocs ==
  [disk |-> [f \in DataFiles |-> [present |-> TRUE, data |-> InitDoc(f)]],
   kv |-> [f \in DataFiles |-> [present |-> FALSE, data |-> InitDoc(f)]],
   kvUp |-> TRUE]

\* isServerless()
isServerless(environ) == environ.VERCEL

\* value.replace(/\\/g, '/')
ReplaceBackslashes(s) == [i \in 1..Len(s) |-> IF s[i] = BACKSLASH THEN "/" ELSE s[i]]

\* typeof value === 'string' ? value.replace(/\\/g, '/') : value
NormalizeUrl(v) == IF IsString(v) THEN JsStr(ReplaceBackslashes(v.s)) ELSE v

\* normalizeImageUrls on one board file or project: the urls of its images
NormalizeItem(item) ==
  [item EXCEPT !.images =
     IF IsArray(@) THEN JsArray([i \in 1..Len(@.s) |-> NormalizeUrl(@.s[i])]) ELSE @]

NormalizeItems(v) ==
  IF IsArray(v) THEN JsArray([i \in 1..Len(v.s) |-> NormalizeItem(v.s[i])]) ELSE v

\* normalizeImageUrls(parsed) for the document of file f
normalizeImageUrls(f, data) ==
  CASE f = "about.json" -> [data EXCEPT !.imageUrl = NormalizeUrl(@)]
    [] f = "resume.json" -> [data EXCEPT !.fileUrl = NormalizeUrl(@)]
    [] f = "projects.json" ->
         [data EXCEPT !.initialFiles = NormalizeItems(@), !.projectItems = NormalizeItems(@)]
    [] OTHER -> data

\* readFromKV(filename): the stored value, or null when there is none or the
\* store cannot be reached (the error is caught)
readFromKV(d, f) == IF d.kvUp /\ d.kv[f].present THEN d.kv[f] ELSE [present |-> FALSE]

\* variant: the file on disk is read in every mode
readDataFile_diskOnly(d, environ, f) ==
  [ok |-> d.disk[f].present, data |-> normalizeImageUrls(f, d.disk[f].data)]

\* readDataFile(filename): ok is FALSE when it throws
readDataFile(d, environ, f) ==
  LET source == IF isServerless(environ) /\ readFromKV(d, f).present
                THEN readFromKV(d, f) ELSE d.disk[f]
  IN [ok |-> source.present, data |-> normalizeImageUrls(f, source.data)]

\* writeDataFile(filename, data)
writeDataFile(d, environ, f, data) ==
  IF isServerless(environ)
  THEN [d EXCEPT !.kv[f] = [present |-> TRUE, data |-> data]]
  ELSE [d EXCEPT !.disk[f] = [present |-> TRUE, data |-> data]]

\* variant: the write of a request that read earlier does not reach the store
Overwrite_dropped(current, written, f) == current

\* writeDataFile of a handler that read the documents earlier: `written` is
\* what the handler makes of the documents it read, `current` are the stored
\* documents at the time of the write.  The whole value of file f is replaced,
\* whatever was written since the read.
Overwrite(current, written, f) ==
  [current EXCEPT !.disk[f] = written.disk[f], !.kv[f] = written.kv[f]]

\* no request is between its read and its write
NoRequests == <<>>

\* the history of writes: nothing written yet, and the writes that turned the
\* documents into d2
NoWrites == [f \in DataFiles |-> [set |-> FALSE, data |-> InitDoc(f)]]
NoteWrites(d2) ==
  [f \in DataFiles |->
     IF d2.disk[f] # docs.disk[f] THEN [set |-> TRUE, data |-> d2.disk[f].data]
     ELSE IF d2.kv[f] # docs.kv[f] THEN [set |-> TRUE, data |-> d2.kv[f].data]
     ELSE lastWritten[f]]

InitCommon ==
  /\ now = 0
  /\ nticks = 0
  /\ resp = BaseResp
  /\ winStart = [k \in Keys |-> NoWindow]
  /\ winCount = [k \in Keys |-> 0]
  /\ jar = [b \in Browsers |-> NoCookie]
  /\ session = [b \in Browsers |-> FALSE]
  /\ docs = InitDocs
  /\ files = {}
  /\ lastWritten = NoWrites
  /\ inflight = NoRequests
  /\ issued = {}

\* the window of a key as the claims describe it: it opens at the first request
\* made when no window is open and stays open while now <= start + window
WindowOpen(k, t, windowMs) == winStart[k] # NoWindow /\ t <= winStart[k] + windowMs

\* the history of one request for key k at time t; the count saturates above the limit
NoteRequest(k, t, windowMs, maxRequests) ==
  IF WindowOpen(k, t, windowMs)
  THEN /\ winCount' = [winCount EXCEPT ![k] = Min(@ + 1, maxRequests + 2)]
       /\ UNCHANGED winStart
  ELSE /\ winStart' = [winStart EXCEPT ![k] = t]
       /\ winCount' = [winCount EXCEPT ![k] = 1]

\* time passes
Tick(d) ==
  /\ pc = "run"
  /\ nticks < MaxTicks
  /\ now' = now + d
  /\ nticks' = nticks + 1
  /\ UNCHANGED <<rateLimitStore, env, resp, winStart, winCount, jar, session, docs, files, pc, lastWritten,
                 inflight, issued>>

(***************************************************************************)
(* Specification of the contact form under load                            *)
(***************************************************************************)
InitContact ==
  /\ InitCommon
  /\ rateLimitStore = EmptyStore
  /\ env = EnvFull
  /\ pc = "run"

ContactRequest ==
  /\ pc = "run"
  /\ \E req \in ContactSeqReqs :
       LET out == ContactPOST(rateLimitStore, now, env, req)
       IN /\ rateLimitStore' = out.store
          /\ resp' = out.resp
          /\ NoteRequest(<<"contact", getClientIP(req)>>, now, CONTACT_WINDOW, CONTACT_MAX)
  /\ UNCHANGED <<now, nticks, env, jar, session, docs, files, pc, lastWritten, inflight, issued>>

TickContact == \E d \in {LOGIN_WINDOW, CONTACT_WINDOW} : Tick(d)

NextContact == ContactRequest \/ TickContact

SpecContact == InitContact /\ [][NextContact]_vars

(***************************************************************************)
(* Specification of one contact request, over all short inputs             *)
(***************************************************************************)
\* the store after CONTACT_MAX requests of one client at time 0
ExhaustedStore ==
  (RateLimitKey("contact", ClientIP) :> [count |-> CONTACT_MAX, resetTime |-> CONTACT_WINDOW])
    @@ EmptyStore

InitContactOnce ==
  /\ InitCommon
  /\ rateLimitStore \in {EmptyStore, ExhaustedStore}
  /\ env \in Envs
  /\ pc = "ready"

ContactOnce ==
  /\ pc = "ready"
  /\ \E req \in ContactAllReqs :
       LET out == ContactPOST(rateLimitStore, now, env, req)
       IN /\ rateLimitStore' = out.store
          /\ resp' = out.resp
  /\ pc' = "done"
  /\ UNCHANGED <<now, nticks, env, winStart, winCount, jar, session, docs, files, lastWritten,
                 inflight, issued>>

NextContactOnce == ContactOnce

SpecContactOnce == InitContactOnce /\ [][NextContactOnce]_vars

(***************************************************************************)
(* Properties of the contact form                                          *)
(***************************************************************************)
TooManyContact == "Too many contact form submissions. Please try again later."

HasNonWhitespace(s) == \E i \in 1..Len(s) : s[i] \notin Whitespace

\* the request passed the rate-limit, size and JSON-body checks
PassedEarlyChecks ==
  /\ resp.route = "contact"
  /\ resp.rl.allowed
  /\ (resp.req.contentLength = NoLength \/ resp.req.contentLength <= 10 * 1024)
  /\ resp.req.body.k = "object"

\* C3: a contact request that passes the rate-limit, size and JSON-body checks
\* and whose website field is a string with a non-whitespace character is
\* answered 200 {success: true, message: 'Message sent successfully!'} and no
\* mail is sent, whatever name, email and message are.
C3_Honeypot ==
  (PassedEarlyChecks /\ resp.req.body.website.t = "string"
     /\ HasNonWhitespace(resp.req.body.website.s))
  => /\ resp.status = 200 /\ resp.success /\ resp.message = "Message sent successfully!"
     /\ resp.error = ""
     /\ resp.mails = <<>>

\* a honeypot submission with an invalid name and email was silently accepted
C3_Witness ==
  /\ PassedEarlyChecks
  /\ resp.req.body.website = JsStr(<<" ", "a", " ">>)
  /\ resp.req.body.name = JsUndefined
  /\ resp.req.body.email = JsNumber
  /\ resp.status = 200 /\ resp.mails = <<>>

SentMails == IF resp.route = "contact" THEN {resp.mails[i] : i \in 1..Len(resp.mails)} ELSE {}

Chars(s) == {s[i] : i \in 1..Len(s)}

HeaderUnsafe == {CR, LF, "<", ">"}

\* the display name of a From value of the form "name" <address>
DisplayName(from, address) == SubSeq(from, 2, Len(from) - Len(address) - 4)

\* C6: in every mail the contact handler sends, the From display name, the
\* Subject and the Reply-To value contain no CR, no LF, no '<' and no '>',
\* and 'to' is CONTACT_EMAIL or, when that is unset, SMTP_USER.
C6_NoHeaderInjection ==
  \A mail \in SentMails :
    /\ Chars(DisplayName(mail.from, env.SMTP_USER)) \cap HeaderUnsafe = {}
    /\ Chars(mail.from) \cap {CR, LF} = {}
    /\ Chars(mail.subject) \cap HeaderUnsafe = {}
    /\ Chars(mail.replyTo) \cap HeaderUnsafe = {}
    /\ mail.to \in {env.CONTACT_EMAIL, env.SMTP_USER}
    /\ mail.to # <<>>

\* a mail was sent for a name that carried a line feed and an angle bracket
C6_Witness ==
  /\ SentMails # {}
  /\ resp.req.body.name = JsStr(<<"a", LF, "<">>)

\* number of positions of s at which the sequence p occurs
Occurrences(p, s) ==
  Cardinality({i \in 1..(Len(s) - Len(p) + 1) : SubSeq(s, i, i + Len(p) - 1) = p})

HtmlSpecial == {"&", "<", ">", QUOT, "'"}
HtmlFields == {"name", "email", "message"}

\* the entity the claim names for each character
EntityFor(c) ==
  CASE c = "&" -> <<"&", "a", "m", "p", ";">>
    [] c = "<" -> <<"&", "l", "t", ";">>
    [] c = ">" -> <<"&", "g", "t", ";">>
    [] c = QUOT -> <<"&", "q", "u", "o", "t", ";">>
    [] c = "'" -> <<"&", "#", "0", "3", "9", ";">>

\* the length the handler cuts each field to
FieldLimit(f) == CASE f = "name" -> 100 [] f = "email" -> 200 [] f = "message" -> 5000

\* the submitted value of a field, trimmed and cut to the field's length
Submitted(f) == Slice(Trim(resp.req.body[f].s), FieldLimit(f))

\* C7 as stated: in the HTML body of every mail each of & < > " ' of the
\* submitted name, email and message is replaced by its entity, so the body
\* holds none of < > " ' from user input; escapeHtml('non-string') = ''.
C7_EveryCharEscaped ==
  /\ \A mail \in SentMails : \A f \in HtmlFields :
       /\ Chars(mail.html[f]) \cap {"<", ">", QUOT, "'"} = {}
       /\ \A c \in HtmlSpecial :
            Occurrences(EntityFor(c), mail.html[f]) = Occurrences(<<c>>, Submitted(f))
  /\ \A v \in NonStrings : escapeHtml(v) = <<>>

\* C7 amended: the body holds none of < > " ' from user input; each of & " '
\* of the submitted (trimmed, cut) name, email and message and each of < > of
\* the message is replaced by its entity, while '<' and '>' of the name and
\* the email are removed, not replaced; escapeHtml('non-string') = ''.
C7_EscapedOrRemoved ==
  /\ \A mail \in SentMails : \A f \in HtmlFields :
       /\ Chars(mail.html[f]) \cap {"<", ">", QUOT, "'"} = {}
       /\ \A c \in HtmlSpecial :
            Occurrences(EntityFor(c), mail.html[f]) =
              IF f \in {"name", "email"} /\ c \in {"<", ">"} THEN 0
              ELSE Occurrences(<<c>>, Submitted(f))
  /\ \A v \in NonStrings : escapeHtml(v) = <<>>

\* a mail was sent for a message with markup and for a name with an angle bracket
C7_Witness ==
  /\ SentMails # {}
  /\ \/ resp.req.body.message = JsStr(<<"<", "&", LF>>)
     \/ resp.req.body.name = JsStr(<<"<", "a", QUOT>>)

\* the honeypot field was left empty: absent, null or a blank string
HoneypotEmpty(w) == w.t \in {"undefined", "null"} \/ (w.t = "string" /\ ~HasNonWhitespace(w.s))

\* a submission that passes every check of the handler
ValidSubmission(req) ==
  /\ req.contentLength # NoLength /\ req.contentLength <= 10240
  /\ req.body = ObjectBody(GoodName, GoodEmail, GoodMessage, JsUndefined)
  /\ req.verifyOk /\ req.sendOk

FieldAbsent(v) == v.t # "string" \/ ~HasNonWhitespace(v.s)

\* an email that is missing, is no string or does not match the pattern
EmailMismatch(v) == v.t # "string" \/ ~EmailPattern(v.s)

\* the errors of the field validation
FieldErrors ==
  {"Name is required", "Valid email is required", "Message is required", "Invalid input"}

\* C16: after the honeypot check the fields are validated in the order name,
\* email, message, and the first failing check determines the 400 response:
\* 'Name is required', else 'Valid email is required', else 'Message is
\* required', else 'Invalid input' when a value is empty after sanitization.
C16_ValidationOrder ==
  (PassedEarlyChecks /\ resp.req.body.k = "object" /\ ~HoneypotFilled(resp.req.body.website)) =>
    LET b == resp.req.body
        answered(error) == resp.status = 400 /\ resp.error = error
    IN IF FieldAbsent(b.name) THEN answered("Name is required")
       ELSE IF EmailMismatch(b.email) THEN answered("Valid email is required")
       ELSE IF FieldAbsent(b.message) THEN answered("Message is required")
       ELSE IF \/ sanitizeString(b.name, 100) = <<>>
               \/ sanitizeString(b.email, 200) = <<>>
               \/ sanitizeString(b.message, 5000) = <<>>
       THEN answered("Invalid input")
       ELSE resp.error \notin FieldErrors

\* a name of control characters passed the three field checks and was refused
\* after sanitization
C16_Witness ==
  /\ resp.route = "contact" /\ resp.status = 400 /\ resp.error = "Invalid input"
  /\ ~FieldAbsent(resp.req.body.name) /\ sanitizeString(resp.req.body.name, 100) = <<>>

\* C12: every contact request whose body is larger than 10 KB (10240 bytes)
\* that the rate limiter lets through is rejected with 413 'Request too
\* large', and no mail is sent for it.
C12_LargeBodyRejected ==
  (resp.route = "contact" /\ resp.rl.allowed /\ resp.req.bodySize > 10240) =>
    /\ resp.status = 413 /\ resp.error = "Request too large"
    /\ resp.mails = <<>>

\* C8: a mail is sent for a contact request only if the rate limiter allowed
\* it, the size check passed, the body was a JSON object, the honeypot field
\* was empty, name and message were strings with a non-whitespace character,
\* email matched local@domain.tld without whitespace, the sanitized values
\* were non-empty, SMTP was configured and verify succeeded; at most one mail
\* is sent per request and none with status 400, 413, 429 or 500.
C8_MailOnlyIfAllChecks ==
  resp.route = "contact" =>
    /\ Len(resp.mails) <= 1
    /\ resp.status \in {400, 413, 429, 500} => resp.mails = <<>>
    /\ resp.mails # <<>> =>
         LET b == resp.req.body
         IN /\ PassedEarlyChecks
            /\ HoneypotEmpty(b.website)
            /\ b.name.t = "string" /\ HasNonWhitespace(b.name.s)
            /\ b.message.t = "string" /\ HasNonWhitespace(b.message.s)
            /\ b.email.t = "string" /\ EmailPattern(b.email.s)
            /\ sanitizeString(b.name, 100) # <<>>
            /\ sanitizeString(b.email, 200) # <<>>
            /\ sanitizeString(b.message, 5000) # <<>>
            /\ env.SMTP_HOST # <<>> /\ env.SMTP_USER # <<>> /\ env.SMTP_PASSWORD # <<>>
            /\ resp.req.verifyOk

(***************************************************************************)
(* Admin session: token, cookie, password                                  *)
(***************************************************************************)
FALLBACK_SECRET == "dev-secret-key-change-in-production"
BCRYPT_MAX == 72
MAX_PASSWORD == 200
LOGIN_BODY_SIZE == 1024

\* parseExpirationToSeconds(expiration); an unknown unit is a format mismatch
parseExpirationToSeconds(e) ==
  CASE e.u = "s" -> e.n
    [] e.u = "m" -> e.n * 60
    [] e.u = "h" -> e.n * 60 * 60
    [] e.u = "d" -> e.n * 60 * 60 * 24
    [] OTHER -> 60 * 60 * 24

\* the timespan jwt.sign accepts for expiresIn; anything else makes it throw
ValidTimespan(e) == e.u \in {"s", "m", "h", "d"}

\* JWT_SECRET || FALLBACK_SECRET
ServerSecret(environ) ==
  IF environ.JWT_SECRET # "" THEN environ.JWT_SECRET ELSE FALLBACK_SECRET

Seconds(t) == t \div 1000

\* jwt.sign({admin: true}, secret, {expiresIn}) at time t
createAdminToken(environ, t) ==
  [iat |-> Seconds(t),
   exp |-> Seconds(t) + parseExpirationToSeconds(environ.JWT_EXPIRATION_TIME),
   admin |-> TRUE, secret |-> ServerSecret(environ)]

\* setAdminCookie(token): the cookie the browser stores, with its maxAge
setAdminCookie(environ, t, token) ==
  [value |-> token,
   expires |-> t + parseExpirationToSeconds(environ.JWT_EXPIRATION_TIME) * 1000]

\* removeAdminCookie that leaves the cookie in place
removeAdminCookie_keep(cookie) == cookie

\* removeAdminCookie(): cookieStore.delete('admin-token')
removeAdminCookie(cookie) == NoCookie

\* variant: the expiry of the token is not looked at
verifyAdmin_ignoreExpiry(token, t, environ) ==
  /\ token # NoToken
  /\ token.secret = ServerSecret(environ)
  /\ token.admin = TRUE

\* verifyAdmin(): the token of the request's cookie is signed with the server
\* secret, unexpired and has admin === true
verifyAdmin(token, t, environ) ==
  /\ token # NoToken
  /\ token.secret = ServerSecret(environ)
  /\ Seconds(t) < token.exp
  /\ token.admin = TRUE

\* bcrypt.compare(password, hash): bcrypt reads the first 72 bytes
BcryptCompare(password, hash) == Slice(password, BCRYPT_MAX) = Slice(hash.of, BCRYPT_MAX)

\* verifyPassword(password)
verifyPassword(password, environ) ==
  IF ~Truthy(password) \/ ~IsString(password) THEN FALSE
  ELSE IF environ.ADMIN_PASSWORD_HASH.set
          /\ BcryptCompare(password.s, environ.ADMIN_PASSWORD_HASH)
  THEN TRUE
  ELSE FALSE

\* the cookie a browser attaches to a request at time t
RequestCookie(cookie, t) ==
  IF cookie # NoCookie /\ t < cookie.expires THEN cookie.value ELSE NoToken

TooManyLogin == "Too many login attempts. Please try again later."

\* the length test with the limit never applied
PasswordTooLong_never(password) == FALSE

\* password.length > 200
PasswordTooLong(password) == Len(password.s) > MAX_PASSWORD

\* POST /api/admin/login: the new store, the response and the cookie it sets
LoginPOST(store, t, environ, req) ==
  LET clientIP == getClientIP(req)
      limited == rateLimitLogin(store, t, clientIP)
      r == [BaseResp EXCEPT !.route = "login", !.req = req, !.ip = clientIP,
                            !.rl = limited.result]
      parseError == parseJsonBody(req)
      password == req.body.password
      token == createAdminToken(environ, t)
      denied(resp0) == [store |-> limited.store, resp |-> resp0, cookie |-> NoCookie]
  IN IF ~limited.result.allowed
     THEN denied([r EXCEPT !.status = 429, !.error = TooManyLogin])
     ELSE IF checkContentLength(req, LOGIN_BODY_SIZE)
     THEN denied([r EXCEPT !.status = 413, !.error = "Request too large"])
     ELSE IF parseError # ""
     THEN denied([r EXCEPT !.status = 400, !.error = parseError, !.bodyRead = TRUE])
     ELSE IF ~Truthy(password) \/ ~IsString(password)
     THEN denied([r EXCEPT !.status = 400, !.error = "Password is required", !.bodyRead = TRUE])
     ELSE IF PasswordTooLong(password)
     THEN denied([r EXCEPT !.status = 401, !.error = "Invalid password", !.bodyRead = TRUE])
     ELSE IF ~verifyPassword(password, environ)
     THEN denied([r EXCEPT !.status = 401, !.error = "Invalid password", !.bodyRead = TRUE,
                           !.verifyCalled = TRUE])
     ELSE IF ~ValidTimespan(environ.JWT_EXPIRATION_TIME)
     THEN denied([r EXCEPT !.status = 500, !.error = "Authentication failed",
                           !.bodyRead = TRUE, !.verifyCalled = TRUE])
     ELSE [store |-> limited.store,
           resp |-> [r EXCEPT !.status = 200, !.success = TRUE, !.bodyRead = TRUE,
                              !.verifyCalled = TRUE, !.cookieSet = TRUE],
           cookie |-> setAdminCookie(environ, t, token)]

\* POST /api/admin/logout
LogoutPOST(req) ==
  [BaseResp EXCEPT !.route = "logout", !.req = req, !.status = 200, !.success = TRUE]

\* GET /api/admin/verify
VerifyGET(token, t, environ, req) ==
  [BaseResp EXCEPT !.route = "verify", !.req = req, !.status = 200,
                   !.authenticated = verifyAdmin(token, t, environ)]

(***************************************************************************)
(* Upload validation                                                       *)
(***************************************************************************)
LowerCase ==
  <<"a", "b", "c", "d", "e", "f", "g", "h", "i", "j", "k", "l", "m",
    "n", "o", "p", "q", "r", "s", "t", "u", "v", "w", "x", "y", "z">>
UpperCase ==
  <<"A", "B", "C", "D", "E", "F", "G", "H", "I", "J", "K", "L", "M",
    "N", "O", "P", "Q", "R", "S", "T", "U", "V", "W", "X", "Y", "Z">>
Digits == <<"0", "1", "2", "3", "4", "5", "6", "7", "8", "9">>
Range(s) == {s[i] : i \in 1..Len(s)}

\* [a-zA-Z0-9._-]
FilenameChars == Range(LowerCase) \cup Range(UpperCase) \cup Range(Digits) \cup {".", "_", "-"}

Max(a, b) == IF a > b THEN a ELSE b

\* String.prototype.toLowerCase
ToLowerChar(c) ==
  IF c \in Range(UpperCase)
  THEN LowerCase[CHOOSE i \in 1..Len(UpperCase) : UpperCase[i] = c]
  ELSE c
ToLower(s) == [i \in 1..Len(s) |-> ToLowerChar(s[i])]

\* .replace(/\.\./g, '_'): the matches are taken from left to right
RECURSIVE ReplaceDotDot(_)
ReplaceDotDot(s) ==
  LET matchAt(i) == s[i] = "." /\ s[i + 1] = "."
  IN IF \A i \in 1..(Len(s) - 1) : ~matchAt(i) THEN s
     ELSE LET first == CHOOSE i \in 1..(Len(s) - 1) :
                         matchAt(i) /\ \A j \in 1..(i - 1) : ~matchAt(j)
          IN SubSeq(s, 1, first - 1) \o <<"_">>
               \o ReplaceDotDot(SubSeq(s, first + 2, Len(s)))

RECURSIVE StripLeadingDots(_)
StripLeadingDots(s) ==
  IF s # <<>> /\ Head(s) = "." THEN StripLeadingDots(Tail(s)) ELSE s

\* .replace(/\.+$/, '')
RECURSIVE StripTrailingDots(_)
StripTrailingDots(s) ==
  IF s # <<>> /\ s[Len(s)] = "." THEN StripTrailingDots(SubSeq(s, 1, Len(s) - 1)) ELSE s

\* s.split('.').pop(): what follows the last dot, the whole of s when it has none
LastSegment(s) ==
  IF \A i \in 1..Len(s) : s[i] # "." THEN s
  ELSE LET last == CHOOSE i \in 1..Len(s) : s[i] = "." /\ \A j \in (i + 1)..Len(s) : s[j] # "."
       IN SubSeq(s, last + 1, Len(s))

MAX_FILENAME == 100

\* sanitizeFilename(filename)
sanitizeFilename(filename) ==
  LET replaced == [i \in 1..Len(filename) |->
                     IF filename[i] \in FilenameChars THEN filename[i] ELSE "_"]
      sanitized == StripTrailingDots(StripLeadingDots(ReplaceDotDot(replaced)))
      ext == LastSegment(sanitized)
      limited == IF Len(sanitized) > MAX_FILENAME
                 THEN Slice(sanitized, Max(MAX_FILENAME - Len(ext) - 1, 0)) \o <<".">> \o ext
                 ELSE sanitized
  IN IF limited # <<>> THEN limited ELSE <<"f", "i", "l", "e">>

\* validateFileExtension(filename, allowedExtensions)
validateFileExtension(filename, allowedExtensions) ==
  LET ext == LastSegment(ToLower(filename))
  IN IF ext # <<>> THEN ext \in allowedExtensions ELSE FALSE

MAX_FILE_SIZE == 5 * 1024 * 1024
ALLOWED_EXTENSIONS ==
  {<<"p", "n", "g">>, <<"j", "p", "g">>, <<"j", "p", "e", "g">>, <<"w", "e", "b", "p">>,
   <<"g", "i", "f">>}
IMAGE_PREFIX == <<"i", "m", "a", "g", "e", "/">>
HEAD_LENGTH == 12     \* the bytes of a file that validateImageFile looks at

\* a file of the form data: its size and its first HEAD_LENGTH bytes
FormFile(name, type, size, content) ==
  [kind |-> "file", name |-> name, type |-> type, size |-> size,
   head |-> Slice(content, Min(size, HEAD_LENGTH))]
NoFile == [kind |-> "none", name |-> <<>>, type |-> <<>>, size |-> 0, head |-> <<>>]
TextField == [kind |-> "text", name |-> <<>>, type |-> <<>>, size |-> 0, head |-> <<>>]

\* a signature test that accepts every content
validateImageFile_any(file) == TRUE

\* validateImageFile(file): the magic bytes; bytes.length is the size of the file
validateImageFile(file) ==
  LET bytes == file.head
  IN IF file.size < 4 THEN FALSE
     ELSE IF bytes[1] = 137 /\ bytes[2] = 80 /\ bytes[3] = 78 /\ bytes[4] = 71 THEN TRUE
     ELSE IF bytes[1] = 255 /\ bytes[2] = 216 /\ bytes[3] = 255 THEN TRUE
     ELSE IF bytes[1] = 71 /\ bytes[2] = 73 /\ bytes[3] = 70 /\ bytes[4] = 56 THEN TRUE
     ELSE IF file.size >= 12
             /\ bytes[1] = 82 /\ bytes[2] = 73 /\ bytes[3] = 70 /\ bytes[4] = 70
             /\ bytes[9] = 87 /\ bytes[10] = 69 /\ bytes[11] = 66 /\ bytes[12] = 80
     THEN TRUE
     ELSE FALSE

NoFileProvided == "No file provided"
FileTooLarge == "File size must be less than 5MB"
FileEmpty == "File is empty"
InvalidFileType == "Invalid file type. Only PNG, JPG, JPEG, WebP, and GIF are allowed."
NotAnImage == "File must be an image"
InvalidImage == "Invalid image file"

UploadError(e) == [valid |-> FALSE, error |-> e, throws |-> FALSE]

\* validateImageUpload(file); a text field in place of the file makes
\* sanitizeFilename throw
validateImageUpload(file) ==
  IF file.kind = "none" THEN UploadError(NoFileProvided)
  ELSE IF file.kind = "text" THEN [valid |-> FALSE, error |-> "", throws |-> TRUE]
  ELSE IF file.size > MAX_FILE_SIZE THEN UploadError(FileTooLarge)
  ELSE IF file.size = 0 THEN UploadError(FileEmpty)
  ELSE IF ~validateFileExtension(sanitizeFilename(file.name), ALLOWED_EXTENSIONS)
  THEN UploadError(InvalidFileType)
  ELSE IF ~StartsWith(file.type, IMAGE_PREFIX) THEN UploadError(NotAnImage)
  ELSE IF ~validateImageFile(file) THEN UploadError(InvalidImage)
  ELSE [valid |-> TRUE, error |-> "", throws |-> FALSE]

(***************************************************************************)
(* Admin routes on the data documents.  Each takes the documents, the time,*)
(* the environment and the request, and gives the documents it leaves and  *)
(* its response.                                                           *)
(***************************************************************************)
\* a guard that lets every request through
isAdmin_always(req, t, environ) == TRUE

\* const isAdmin = await verifyAdmin(), on the admin-token cookie of the request
isAdmin(req, t, environ) == verifyAdmin(req.token, t, environ)

Unauthorized(r) == [r EXCEPT !.status = 401, !.error = "Unauthorized"]

\* the response of the catch block
Failed(r, message) == [r EXCEPT !.status = 500, !.error = message, !.bodyRead = TRUE]

BadRequest(r, message) == [r EXCEPT !.status = 400, !.error = message, !.bodyRead = TRUE]

Succeeded(r) == [r EXCEPT !.status = 200, !.success = TRUE, !.bodyRead = TRUE]

\* request.json() throws on a body that is not JSON
JsonThrows(body) == body.k = "invalid"

\* body.<field> of a parsed body: a TypeError on null, undefined on a primitive
Field(body, name) == IF body.k = "object" THEN body[name] ELSE JsUndefined

\* PUT /api/admin/about
AboutPUT(d, t, environ, req) ==
  LET r == [BaseResp EXCEPT !.route = "about", !.req = req]
      body == req.body
      failure == "Failed to update about data"
  IN IF ~isAdmin(req, t, environ) THEN [docs |-> d, resp |-> Unauthorized(r)]
     ELSE IF JsonThrows(body) \/ body.k = "null" THEN [docs |-> d, resp |-> Failed(r, failure)]
     ELSE IF ~Truthy(Field(body, "title")) \/ ~Truthy(Field(body, "intro"))
             \/ ~IsArray(Field(body, "details"))
     THEN [docs |-> d, resp |-> BadRequest(r, "Invalid data structure")]
     ELSE IF ~req.writeOk THEN [docs |-> d, resp |-> Failed(r, failure)]
     ELSE [docs |-> writeDataFile(d, environ, "about.json", body), resp |-> Succeeded(r)]

\* a for...of loop that tests each element in turn and returns at the first
\* invalid one, invalid[i] being the test of element i; reading a property of
\* a null element throws a TypeError
LoopOutcome(items, invalid) ==
  LET stops == {i \in 1..Len(items) : items[i].k = "null" \/ invalid[i]}
      first == CHOOSE i \in stops : \A j \in stops : i <= j
  IN IF stops = {} THEN "passed"
     ELSE IF items[first].k = "null" THEN "throws"
     ELSE "invalid"

\* !section.title || !Array.isArray(section.items)
InvalidSection(section) == ~Truthy(section.title) \/ ~IsArray(section.items)

\* PUT /api/admin/skills
SkillsPUT(d, t, environ, req) ==
  LET r == [BaseResp EXCEPT !.route = "skills", !.req = req]
      body == req.body
      sections == Field(body, "sections")
      failure == "Failed to update skills data"
      sectionLoop ==
        LoopOutcome(sections.s, [i \in 1..Len(sections.s) |-> InvalidSection(sections.s[i])])
  IN IF ~isAdmin(req, t, environ) THEN [docs |-> d, resp |-> Unauthorized(r)]
     ELSE IF JsonThrows(body) \/ body.k = "null" THEN [docs |-> d, resp |-> Failed(r, failure)]
     ELSE IF ~Truthy(sections) \/ ~IsArray(sections)
     THEN [docs |-> d, resp |-> BadRequest(r, "Invalid data structure")]
     ELSE IF sectionLoop = "throws"
     THEN [docs |-> d, resp |-> Failed(r, failure)]
     ELSE IF sectionLoop = "invalid"
     THEN [docs |-> d, resp |-> BadRequest(r, "Invalid section structure")]
     ELSE IF ~req.writeOk THEN [docs |-> d, resp |-> Failed(r, failure)]
     ELSE [docs |-> writeDataFile(d, environ, "skills.json", body), resp |-> Succeeded(r)]

PROJECTS_BODY_SIZE == 10 * 1024 * 1024

\* validateFileItem(item, isProject)
validateFileItem(item, isProject) ==
  IF ~Truthy(item.id) \/ ~Truthy(item.type) \/ ~Truthy(item.title) THEN FALSE
  ELSE IF ~isProject /\ (item.x.t # "number" \/ item.y.t # "number") THEN FALSE
  ELSE IF isProject /\ item.type # JsStr(PROJECT) THEN FALSE
  ELSE TRUE

\* !validateFileItem(file, false) and !validateFileItem(project, true)
InvalidBoardFile(item) == ~validateFileItem(item, FALSE)
InvalidProject(item) == ~validateFileItem(item, TRUE)

\* PUT /api/admin/projects
ProjectsPUT(d, t, environ, req) ==
  LET r == [BaseResp EXCEPT !.route = "projects", !.req = req]
      body == req.body
      initialFiles == Field(body, "initialFiles")
      projectItems == Field(body, "projectItems")
      failure == "Failed to update projects data"
      fileLoop ==
        LoopOutcome(initialFiles.s,
                    [i \in 1..Len(initialFiles.s) |-> InvalidBoardFile(initialFiles.s[i])])
      projectLoop ==
        LoopOutcome(projectItems.s,
                    [i \in 1..Len(projectItems.s) |-> InvalidProject(projectItems.s[i])])
  IN IF ~isAdmin(req, t, environ) THEN [docs |-> d, resp |-> Unauthorized(r)]
     ELSE IF checkContentLength(req, PROJECTS_BODY_SIZE)
     THEN [docs |-> d, resp |-> [r EXCEPT !.status = 413, !.error = "Request too large"]]
     ELSE IF JsonThrows(body) \/ body.k = "null" THEN [docs |-> d, resp |-> Failed(r, failure)]
     ELSE IF ~Truthy(initialFiles) \/ ~IsArray(initialFiles)
             \/ ~Truthy(projectItems) \/ ~IsArray(projectItems)
     THEN [docs |-> d, resp |-> BadRequest(r, "Invalid data structure")]
     ELSE IF fileLoop = "throws"
     THEN [docs |-> d, resp |-> Failed(r, failure)]
     ELSE IF fileLoop = "invalid"
     THEN [docs |-> d, resp |-> BadRequest(r, "Invalid file item structure")]
     ELSE IF projectLoop = "throws"
     THEN [docs |-> d, resp |-> Failed(r, failure)]
     ELSE IF projectLoop = "invalid"
     THEN [docs |-> d, resp |-> BadRequest(r, "Invalid project item structure")]
     ELSE IF ~req.writeOk THEN [docs |-> d, resp |-> Failed(r, failure)]
     ELSE [docs |-> writeDataFile(d, environ, "projects.json", body), resp |-> Succeeded(r)]

\* PUT /api/admin/resume
ResumePUT(d, t, environ, req) ==
  LET r == [BaseResp EXCEPT !.route = "resume", !.req = req]
      body == req.body
      fileUrl == Field(body, "fileUrl")
      failure == "Failed to update resume data"
  IN IF ~isAdmin(req, t, environ) THEN [docs |-> d, resp |-> Unauthorized(r)]
     ELSE IF JsonThrows(body) \/ body.k = "null" THEN [docs |-> d, resp |-> Failed(r, failure)]
     ELSE IF fileUrl.t # "string" /\ fileUrl.t # "null"
     THEN [docs |-> d, resp |-> BadRequest(r, "Invalid data structure")]
     ELSE IF ~req.writeOk THEN [docs |-> d, resp |-> Failed(r, failure)]
     ELSE [docs |-> writeDataFile(d, environ, "resume.json", body), resp |-> Succeeded(r)]

\* the decimal digits of a natural number
RECURSIVE Decimal(_)
Decimal(n) == IF n < 10 THEN <<Digits[n + 1]>> ELSE Decimal(n \div 10) \o <<Digits[(n % 10) + 1]>>

\* v || fallback
OrElse(v, fallback) == IF Truthy(v) THEN v ELSE fallback

\* the ProjectItem that POST /api/admin/projects/new builds from the body
NewProject(body, t) ==
  Item(OrElse(body.id, JsStr(PROJECT \o <<"-">> \o Decimal(t))),
       OrElse(body.type, JsStr(PROJECT)),
       body.title, JsUndefined, JsUndefined,
       OrElse(body.images, JsArray(<<>>)))

\* POST /api/admin/projects/new
ProjectsNewPOST(d, t, environ, req) ==
  LET r == [BaseResp EXCEPT !.route = "projects/new", !.req = req]
      body == req.body
      read == readDataFile(d, environ, "projects.json")
      data == read.data
      added == [data EXCEPT !.projectItems = JsArray(@.s \o <<NewProject(body, t)>>)]
      failure == "Failed to add project"
  IN IF ~isAdmin(req, t, environ) THEN [docs |-> d, resp |-> Unauthorized(r)]
     ELSE IF JsonThrows(body) \/ ~read.ok \/ body.k = "null"
     THEN [docs |-> d, resp |-> Failed(r, failure)]
     ELSE IF ~Truthy(Field(body, "title"))
     THEN [docs |-> d, resp |-> BadRequest(r, "Invalid project data")]
     ELSE IF ~req.writeOk THEN [docs |-> d, resp |-> Failed(r, failure)]
     ELSE [docs |-> writeDataFile(d, environ, "projects.json", added), resp |-> Succeeded(r)]

\* variant: the filter keeps nothing
WithoutId_clear(items, id) == <<>>

\* data.projectItems.filter((item) => item.id !== id)
WithoutId(items, id) == SelectSeq(items, LAMBDA item : item.id # JsStr(id))

\* DELETE /api/admin/projects/[id]: the request has no body
ProjectDELETE(d, t, environ, req) ==
  LET r == [BaseResp EXCEPT !.route = "projects/[id]", !.req = req]
      read == readDataFile(d, environ, "projects.json")
      data == read.data
      kept == [data EXCEPT !.projectItems = JsArray(WithoutId(@.s, req.id))]
      failed == [r EXCEPT !.status = 500, !.error = "Failed to delete project"]
  IN IF ~isAdmin(req, t, environ) THEN [docs |-> d, resp |-> Unauthorized(r)]
     ELSE IF ~read.ok \/ ~req.writeOk THEN [docs |-> d, resp |-> failed]
     ELSE [docs |-> writeDataFile(d, environ, "projects.json", kept),
           resp |-> [r EXCEPT !.status = 200, !.success = TRUE]]

(***************************************************************************)
(* Upload routes.  A stored file is known by where it lies, its generated  *)
(* name, its content type and its size; a directory by where it lies.      *)
(***************************************************************************)
StoredFile(where, folder, prefix, t, ext, file) ==
  [dir |-> FALSE, where |-> where, folder |-> folder, prefix |-> prefix, ts |-> t,
   ext |-> ext, type |-> file.type, size |-> file.size]
Directory(where, folder) ==
  [dir |-> TRUE, where |-> where, folder |-> folder, prefix |-> "", ts |-> 0,
   ext |-> <<>>, type |-> <<>>, size |-> 0]

\* originalFilename.split('.').pop()?.toLowerCase() || 'png'
UploadExtension(file) ==
  LET extension == ToLower(LastSegment(sanitizeFilename(file.name)))
  IN IF extension # <<>> THEN extension ELSE <<"p", "n", "g">>

\* uploadFile(buffer, filename, folder, contentType): the blob store when its
\* token is set, else the storage and the public directory of the server
uploadFile(fs, environ, t, file, prefix, folder, putOk) ==
  LET ext == UploadExtension(file)
      blob == {StoredFile("blob", folder, prefix, t, ext, file)}
      dirs == {Directory("storage", folder), Directory("public", folder)}
      local == {StoredFile("storage", folder, prefix, t, ext, file),
                StoredFile("public", folder, prefix, t, ext, file)}
  IN IF environ.BLOB_READ_WRITE_TOKEN
     THEN IF putOk THEN [ok |-> TRUE, files |-> fs \cup blob, written |-> blob]
          ELSE [ok |-> FALSE, files |-> fs, written |-> {}]
     ELSE IF putOk THEN [ok |-> TRUE, files |-> fs \cup dirs \cup local, written |-> local]
          ELSE [ok |-> FALSE, files |-> fs \cup dirs, written |-> {}]

\* POST /api/admin/about/upload: writes into public/uploads/about itself
AboutUploadPOST(fs, t, environ, req) ==
  LET r == [BaseResp EXCEPT !.route = "about/upload", !.req = req]
      withDir == fs \cup {Directory("public", "about")}      \* ensureUploadDir()
      v == validateImageUpload(req.file)
      written == {StoredFile("public", "about", "profile", t, UploadExtension(req.file), req.file)}
      failure == "Failed to upload file"
  IN IF ~isAdmin(req, t, environ) THEN [files |-> fs, resp |-> Unauthorized(r)]
     ELSE IF ~req.formOk \/ v.throws THEN [files |-> withDir, resp |-> Failed(r, failure)]
     ELSE IF ~v.valid THEN [files |-> withDir, resp |-> BadRequest(r, v.error)]
     ELSE IF ~req.writeOk THEN [files |-> withDir, resp |-> Failed(r, failure)]
     ELSE [files |-> withDir \cup written, resp |-> [Succeeded(r) EXCEPT !.stored = written]]

\* the upload routes that store through uploadFile
StorageUploadPOST(fs, t, environ, req, route, prefix, folder, failure) ==
  LET r == [BaseResp EXCEPT !.route = route, !.req = req]
      v == validateImageUpload(req.file)
      up == uploadFile(fs, environ, t, req.file, prefix, folder, req.writeOk)
  IN IF ~isAdmin(req, t, environ) THEN [files |-> fs, resp |-> Unauthorized(r)]
     ELSE IF ~req.formOk \/ v.throws THEN [files |-> fs, resp |-> Failed(r, failure)]
     ELSE IF ~v.valid THEN [files |-> fs, resp |-> BadRequest(r, v.error)]
     ELSE IF ~up.ok THEN [files |-> up.files, resp |-> Failed(r, failure)]
     ELSE [files |-> up.files, resp |-> [Succeeded(r) EXCEPT !.stored = up.written]]

\* POST /api/admin/projects/upload
ProjectsUploadPOST(fs, t, environ, req) ==
  StorageUploadPOST(fs, t, environ, req, "projects/upload", "project", "projects",
                    "Failed to upload file")

\* POST /api/admin/resume/upload
ResumeUploadPOST(fs, t, environ, req) ==
  StorageUploadPOST(fs, t, environ, req, "resume/upload", "resume", "resume",
                    "Failed to upload resume")

(***************************************************************************)
(* Specification of the admin session                                      *)
(***************************************************************************)
\* each browser sits behind its own address; one of them sends no address header
HeadersOf(b) ==
  IF b = ClientIP THEN DirectHeaders ELSE [forwarded |-> NoHeader, realIP |-> NoHeader]

LoginBody(k, password) == [k |-> k, password |-> password]

LoginReq(b, len, body) ==
  [route |-> "login", browser |-> b, forwarded |-> HeadersOf(b).forwarded,
   realIP |-> HeadersOf(b).realIP, contentLength |-> len, body |-> body]

PlainReq(route, b) == [route |-> route, browser |-> b]

WrongPassword == <<"x">>
LongPassword == [i \in 1..(MAX_PASSWORD + 1) |-> "a"]
LimitPassword == [i \in 1..MAX_PASSWORD |-> "a"]

EnvNoHash == [EnvFull EXCEPT !.ADMIN_PASSWORD_HASH = NoHash]
EnvBadTimespan == [EnvFull EXCEPT !.JWT_EXPIRATION_TIME = [n |-> 0, u |-> "soon"]]
EnvShortSession == [EnvFull EXCEPT !.JWT_EXPIRATION_TIME = [n |-> 30, u |-> "m"]]
EnvDev == [EnvFull EXCEPT !.JWT_SECRET = ""]
EnvLongHash == [EnvFull EXCEPT !.ADMIN_PASSWORD_HASH = HashOf(LimitPassword)]

\* what GET /api/admin/verify reports to browser b in the current state
VerifyResult(b) == verifyAdmin(RequestCookie(jar[b], now), now, env)

InitAuth ==
  /\ InitCommon
  /\ rateLimitStore = EmptyStore
  /\ env = EnvShortSession
  /\ pc = "run"

Login ==
  /\ pc = "run"
  /\ \E b \in Browsers : \E pw \in {AdminPassword, WrongPassword} :
       LET req == LoginReq(b, 100, LoginBody("object", JsStr(pw)))
           out == LoginPOST(rateLimitStore, now, env, req)
       IN /\ rateLimitStore' = out.store
          /\ resp' = out.resp
          /\ jar' = IF out.resp.cookieSet THEN [jar EXCEPT ![b] = out.cookie] ELSE jar
          /\ session' = [session EXCEPT ![b] = @ \/ out.resp.status = 200]
          /\ NoteRequest(<<"login", getClientIP(req)>>, now, LOGIN_WINDOW, LOGIN_MAX)
  /\ UNCHANGED <<now, nticks, env, docs, files, pc, lastWritten, inflight, issued>>

Logout ==
  /\ pc = "run"
  /\ \E b \in Browsers :
       /\ resp' = LogoutPOST(PlainReq("logout", b))
       /\ jar' = [jar EXCEPT ![b] = removeAdminCookie(@)]
       /\ session' = [session EXCEPT ![b] = FALSE]
  /\ UNCHANGED <<now, nticks, rateLimitStore, env, winStart, winCount, docs, files, pc, lastWritten,
                 inflight, issued>>

Verify ==
  /\ pc = "run"
  /\ \E b \in Browsers :
       resp' = VerifyGET(RequestCookie(jar[b], now), now, env, PlainReq("verify", b))
  /\ UNCHANGED <<now, nticks, rateLimitStore, env, winStart, winCount, jar, session, docs, files, pc, lastWritten,
                 inflight, issued>>

\* a mutating admin request: the deletion of a project that does not exist
AbsentId == <<"z">>
DeleteReq(b, token, id, writeOk) ==
  [route |-> "projects/[id]", browser |-> b, token |-> token, id |-> id, writeOk |-> writeOk]

Delete ==
  /\ pc = "run"
  /\ \E b \in Browsers :
       LET req == DeleteReq(b, RequestCookie(jar[b], now), AbsentId, TRUE)
           out == ProjectDELETE(docs, now, env, req)
       IN docs' = out.docs /\ resp' = out.resp /\ lastWritten' = NoteWrites(out.docs)
  /\ UNCHANGED <<now, nticks, rateLimitStore, env, winStart, winCount, jar, session, files, pc,
                 inflight, issued>>

\* a login window passes; two of them are the lifetime of a token
TickAuth == Tick(LOGIN_WINDOW)

NextAuth == Login \/ Logout \/ Verify \/ Delete \/ TickAuth

SpecAuth == InitAuth /\ [][NextAuth]_vars

(***************************************************************************)
(* Specification of one login request, over all kinds of input             *)
(***************************************************************************)
ExhaustedLoginStore ==
  (RateLimitKey("login", ClientIP) :> [count |-> LOGIN_MAX, resetTime |-> LOGIN_WINDOW])
    @@ EmptyStore

AuthEnvs == {EnvFull, EnvNoHash, EnvBadTimespan, EnvShortSession, EnvDev, EnvLongHash}

LoginBodies ==
  {LoginBody("object", p) :
      p \in {JsStr(AdminPassword), JsStr(WrongPassword), JsStr(<<>>), JsStr(LongPassword),
             JsStr(LimitPassword)} \cup NonStrings}
  \cup {LoginBody(k, JsUndefined) : k \in {"invalid", "null", "primitive"}}

LoginAllReqs ==
  {LoginReq(b, len, body) :
      b \in Browsers, len \in {NoLength, 100, LOGIN_BODY_SIZE, LOGIN_BODY_SIZE + 1},
      body \in LoginBodies}

InitLoginOnce ==
  /\ InitCommon
  /\ rateLimitStore \in {EmptyStore, ExhaustedLoginStore}
  /\ env \in AuthEnvs
  /\ pc = "ready"

LoginOnce ==
  /\ pc = "ready"
  /\ \E req \in LoginAllReqs :
       LET out == LoginPOST(rateLimitStore, now, env, req)
       IN /\ rateLimitStore' = out.store
          /\ resp' = out.resp
          /\ jar' = IF out.resp.cookieSet THEN [jar EXCEPT ![req.browser] = out.cookie] ELSE jar
          /\ session' = [session EXCEPT ![req.browser] = @ \/ out.resp.status = 200]
  /\ pc' = "done"
  /\ UNCHANGED <<now, nticks, env, winStart, winCount, docs, files, lastWritten, inflight, issued>>

NextLoginOnce == LoginOnce

SpecLoginOnce == InitLoginOnce /\ [][NextLoginOnce]_vars

(***************************************************************************)
(* Properties of the admin session                                         *)
(***************************************************************************)
\* C2: per client at most 5 login requests of one 15-minute window are let
\* through; the 6th and every later one is answered 429 'Too many login
\* attempts', its password is not verified and no cookie is set, even when
\* the password is correct.
C2_LoginRateLimit ==
  resp.route = "login" =>
    LET n == winCount[<<"login", resp.ip>>]
    IN /\ n >= 1
       /\ resp.rl.allowed => n <= LOGIN_MAX
       /\ n > LOGIN_MAX =>
            /\ resp.status = 429 /\ resp.error = "Too many login attempts. Please try again later."
            /\ ~resp.verifyCalled /\ ~resp.cookieSet /\ ~resp.success
            /\ ~session[resp.req.browser] => jar[resp.req.browser] = NoCookie

\* a 6th login request of a window carried the correct password
C2_Witness ==
  /\ resp.route = "login" /\ resp.status = 429
  /\ resp.req.body.password = JsStr(AdminPassword)
  /\ winCount[<<"login", resp.ip>>] = LOGIN_MAX + 1
  /\ jar[resp.req.browser] = NoCookie

\* the step handled a login request that carried the correct password
CorrectLoginStep ==
  /\ now' = now
  /\ resp'.route = "login"
  /\ resp'.req.body.password = JsStr(AdminPassword)

\* the browser of the request handled last holds the cookie and verify accepts it
LoggedIn(b) == jar[b] # NoCookie /\ VerifyResult(b)

\* without a successful login since the last logout there is no cookie and
\* verify reports authenticated: false
LoggedOutInv == \A b \in Browsers : ~session[b] => (jar[b] = NoCookie /\ ~VerifyResult(b))

\* a mutating admin request of a browser without a successful login since its
\* last logout is answered 401
RefusedWhenLoggedOut ==
  (now' = now /\ resp'.route = "projects/[id]" /\ ~session[resp'.req.browser]) =>
    (resp'.status = 401 /\ docs' = docs)

\* C5 as stated: after a login request with a correct password the cookie is
\* set and verify reports authenticated: true; after logout, and in every
\* state without a successful login since the last logout, it reports false.
C5_AsStated ==
  /\ [][CorrectLoginStep => LoggedIn(resp.req.browser)']_vars
  /\ [][RefusedWhenLoggedOut]_vars
  /\ []LoggedOutInv

\* C5 amended: the same, for a login request with a correct password that the
\* rate limiter lets through.
C5_SessionLifecycle ==
  /\ [][(CorrectLoginStep /\ resp'.rl.allowed) => LoggedIn(resp.req.browser)']_vars
  /\ [][RefusedWhenLoggedOut]_vars
  /\ []LoggedOutInv

\* verify reported authenticated: true to a browser while the other one has
\* logged out again after its own requests
C5_Witness ==
  /\ resp.route = "verify" /\ resp.authenticated
  /\ \E b \in Browsers : b # resp.req.browser /\ ~session[b]
                          /\ winCount[<<"login", b>>] > 0 /\ jar[b] = NoCookie

\* C10: the login handler sets the cookie only if the rate limiter allowed the
\* request, the body was a JSON object, the password a non-empty string of at
\* most 200 characters and verifyPassword returned true; a missing or
\* non-string password gives 400 'Password is required', a longer password
\* 401 'Invalid password' without verifyPassword being called, a rejected one
\* 401 'Invalid password', a thrown error 500 'Authentication failed'; none
\* of these sets the cookie.
C10_LoginOutcomes ==
  resp.route = "login" =>
    LET pw == resp.req.body.password
        len == resp.req.contentLength
        early == /\ resp.rl.allowed
                 /\ (len = NoLength \/ len <= 1024)
                 /\ resp.req.body.k = "object"
        short == pw.t = "string" /\ Len(pw.s) >= 1 /\ Len(pw.s) <= 200
    IN /\ resp.cookieSet =>
            /\ resp.rl.allowed /\ resp.req.body.k = "object" /\ short
            /\ resp.verifyCalled /\ verifyPassword(pw, env)
            /\ resp.status = 200
       /\ (early /\ pw.t # "string") =>
            resp.status = 400 /\ resp.error = "Password is required"
       /\ (early /\ pw.t = "string" /\ Len(pw.s) > 200) =>
            resp.status = 401 /\ resp.error = "Invalid password" /\ ~resp.verifyCalled
       /\ (early /\ short /\ ~verifyPassword(pw, env)) =>
            resp.status = 401 /\ resp.error = "Invalid password"
       /\ (early /\ short /\ verifyPassword(pw, env) /\ ~ValidTimespan(env.JWT_EXPIRATION_TIME)) =>
            resp.status = 500 /\ resp.error = "Authentication failed"
       /\ resp.status # 200 => (~resp.cookieSet /\ jar[resp.req.browser] = NoCookie)
       /\ resp.cookieSet <=> jar[resp.req.browser] # NoCookie

\* a password of 201 characters that bcrypt would accept was refused unverified
C10_Witness ==
  /\ resp.route = "login" /\ resp.status = 401 /\ ~resp.verifyCalled
  /\ resp.req.body.password = JsStr(LongPassword)
  /\ env = EnvLongHash

(***************************************************************************)
(* Specification of the admin routes: two requests, each by the browser    *)
(* with its cookie or by a caller with a token of its own choice           *)
(***************************************************************************)
EnvVercel == [EnvFull EXCEPT !.VERCEL = TRUE, !.BLOB_READ_WRITE_TOKEN = TRUE]
AdminEnvs == {EnvFull, EnvVercel}

\* the cookie of a browser that logged in at time 0
LoggedInCookie == setAdminCookie(EnvFull, 0, createAdminToken(EnvFull, 0))
ForgedToken == [createAdminToken(EnvFull, 0) EXCEPT !.secret = "guess"]

\* the tokens a request of browser b can carry: its cookie while the browser
\* keeps it, the token of the cookie replayed, a token signed with another secret
Tokens(b) == {RequestCookie(jar[b], now), jar[b].value, ForgedToken}

AdminReq(route, b, token, len, body, writeOk) ==
  [route |-> route, browser |-> b, token |-> token, contentLength |-> len, body |-> body,
   writeOk |-> writeOk]

UploadReq(route, b, token, file, formOk, writeOk) ==
  [route |-> route, browser |-> b, token |-> token, file |-> file, formOk |-> formOk,
   writeOk |-> writeOk]

AboutBodies ==
  {AboutDoc(JsStr(<<"B">>), JsStr(<<"j">>), JsArray(<<>>), JsStr(<<"u", BACKSLASH, "x">>)),
   AboutDoc(JsStr(<<>>), JsStr(<<"j">>), JsArray(<<>>), JsUndefined)}
SkillsBodies ==
  {SkillsDoc(JsArray(<<Section(JsStr(<<"T">>), JsArray(<<>>))>>)),
   SkillsDoc(JsArray(<<Section(JsUndefined, JsArray(<<>>))>>))}
ProjectsBodies ==
  {ProjectsDoc(JsArray(<<BoardFile>>), JsArray(<<ProjectP1, ProjectP2>>)),
   ProjectsDoc(JsArray(<<>>), JsArray(<<BoardFile>>)),
   [k |-> "null"]}
ResumeBodies ==
  {ResumeDoc(JsStr(<<"/", "r", ".", "p", "d", "f">>), JsStr(<<"R">>)),
   ResumeDoc(JsNumber, JsStr(<<"R">>))}
NewBody(id, title) ==
  [k |-> "object", id |-> id, type |-> JsUndefined, title |-> title, images |-> JsUndefined]
NewBodies == {NewBody(JsUndefined, JsStr(<<"N">>)), NewBody(JsStr(<<"p", "2">>), JsUndefined)}
DeleteIds == {<<"p", "1">>, AbsentId}

PngContent == <<137, 80, 78, 71, 13, 10, 26, 10, 0, 0, 0, 13>>
JpegContent == <<255, 216, 255, 224, 0, 16, 74, 70, 73, 70, 0, 1>>
GifContent == <<71, 73, 70, 56, 57, 97, 1, 0, 1, 0, 0, 0>>
WebpContent == <<82, 73, 70, 70, 36, 0, 0, 0, 87, 69, 66, 80>>
WaveContent == <<82, 73, 70, 70, 36, 0, 0, 0, 87, 65, 86, 69>>
PdfContent == <<37, 80, 68, 70, 45, 49, 46, 52, 10, 37, 0, 0>>

NamePng == <<"a", ".", "p", "n", "g">>
NameUpper == <<"a", ".", "P", "N", "G">>
NameJpg == <<"a", ".", "j", "p", "g">>
NameJpeg == <<"a", ".", "j", "p", "e", "g">>
NameWebp == <<"a", ".", "w", "e", "b", "p">>
NameGif == <<"a", ".", "g", "i", "f">>
NamePdf == <<"a", ".", "p", "d", "f">>
NameBare == <<"p", "n", "g">>
NameHidden == <<".", "p", "n", "g">>
NameTrailingDot == <<"a", ".", "p", "n", "g", ".">>
NameDotDot == <<"a", ".", ".", "p", "n", "g">>
NameDouble == <<"a", ".", "p", "n", "g", ".", "e", "x", "e">>
NamePath == <<"a", "/", "b", ".", "g", "i", "f">>
NameSlash == <<"a", ".", "p", "n", "g", "/">>
NameEmpty == <<>>
NameLong == [i \in 1..(MAX_FILENAME + 1) |-> "a"] \o <<".", "p", "n", "g">>

TypePng == <<"i", "m", "a", "g", "e", "/", "p", "n", "g">>
TypePdf == <<"a", "p", "p", "l", "i", "c", "a", "t", "i", "o", "n", "/", "p", "d", "f">>
TypeImage == <<"i", "m", "a", "g", "e">>

GoodFile == FormFile(NamePng, TypePng, 20, PngContent)
BadFile == FormFile(NamePng, TypePng, 20, PdfContent)

InitAdmin ==
  /\ now = 0 /\ nticks = 0 /\ resp = BaseResp
  /\ winStart = [k \in Keys |-> NoWindow] /\ winCount = [k \in Keys |-> 0]
  /\ rateLimitStore = EmptyStore
  /\ env \in AdminEnvs
  /\ \E in \in BOOLEAN :
       /\ jar = [b \in Browsers |-> IF in /\ b = ClientIP THEN LoggedInCookie ELSE NoCookie]
       /\ session = [b \in Browsers |-> in /\ b = ClientIP]
  /\ docs = InitDocs
  /\ files = {}
  /\ lastWritten = NoWrites
  /\ inflight = NoRequests
  /\ issued = {}
  /\ pc = "ready"

\* the position after one more request
Advance == pc \in {"ready", "again"} /\ pc' = IF pc = "ready" THEN "again" ELSE "done"

\* a request to a route on the documents took effect as `out`
DataStep(out) ==
  /\ docs' = out.docs /\ resp' = out.resp
  /\ lastWritten' = NoteWrites(out.docs)
  /\ Advance
  /\ UNCHANGED <<now, nticks, rateLimitStore, env, winStart, winCount, jar, session, files, inflight,
                 issued>>

\* a request to an upload route took effect as `out`
UploadStep(out) ==
  /\ files' = out.files /\ resp' = out.resp
  /\ Advance
  /\ UNCHANGED <<now, nticks, rateLimitStore, env, winStart, winCount, jar, session, docs, lastWritten,
                 inflight, issued>>

PutAbout ==
  \E token \in Tokens(ClientIP), body \in AboutBodies, writeOk \in BOOLEAN :
    DataStep(AboutPUT(docs, now, env, AdminReq("about", ClientIP, token, NoLength, body, writeOk)))

PutSkills ==
  \E token \in Tokens(ClientIP), body \in SkillsBodies, writeOk \in BOOLEAN :
    DataStep(SkillsPUT(docs, now, env, AdminReq("skills", ClientIP, token, NoLength, body, writeOk)))

PutProjects ==
  \E token \in Tokens(ClientIP), body \in ProjectsBodies,
     len \in {NoLength, PROJECTS_BODY_SIZE + 1} :
    DataStep(ProjectsPUT(docs, now, env, AdminReq("projects", ClientIP, token, len, body, TRUE)))

PutResume ==
  \E token \in Tokens(ClientIP), body \in ResumeBodies, writeOk \in BOOLEAN :
    DataStep(ResumePUT(docs, now, env, AdminReq("resume", ClientIP, token, NoLength, body, writeOk)))

PostNewProject ==
  \E token \in Tokens(ClientIP), body \in NewBodies, writeOk \in BOOLEAN :
    DataStep(ProjectsNewPOST(docs, now, env,
                             AdminReq("projects/new", ClientIP, token, NoLength, body, writeOk)))

DeleteProject ==
  \E token \in Tokens(ClientIP), id \in DeleteIds, writeOk \in BOOLEAN :
    DataStep(ProjectDELETE(docs, now, env, DeleteReq(ClientIP, token, id, writeOk)))

UploadAbout ==
  \E token \in Tokens(ClientIP), file \in {GoodFile, BadFile}, writeOk \in BOOLEAN :
    UploadStep(AboutUploadPOST(files, now, env,
                               UploadReq("about/upload", ClientIP, token, file, TRUE, writeOk)))

UploadProject ==
  \E token \in Tokens(ClientIP), file \in {GoodFile, BadFile}, writeOk \in BOOLEAN :
    UploadStep(ProjectsUploadPOST(files, now, env,
                                  UploadReq("projects/upload", ClientIP, token, file, TRUE, writeOk)))

UploadResume ==
  \E token \in Tokens(ClientIP), file \in {GoodFile, BadFile}, writeOk \in BOOLEAN :
    UploadStep(ResumeUploadPOST(files, now, env,
                                UploadReq("resume/upload", ClientIP, token, file, TRUE, writeOk)))

LogoutAdmin ==
  /\ resp' = LogoutPOST(PlainReq("logout", ClientIP))
  /\ jar' = [jar EXCEPT ![ClientIP] = removeAdminCookie(@)]
  /\ session' = [session EXCEPT ![ClientIP] = FALSE]
  /\ Advance
  /\ UNCHANGED <<now, nticks, rateLimitStore, env, winStart, winCount, docs, files, lastWritten,
                 inflight, issued>>

\* the lifetime of a token passes
TickAdmin ==
  /\ pc \in {"ready", "again"}
  /\ nticks < MaxTicks
  /\ now' = now + parseExpirationToSeconds(env.JWT_EXPIRATION_TIME) * 1000
  /\ nticks' = nticks + 1
  /\ UNCHANGED <<rateLimitStore, env, resp, winStart, winCount, jar, session, docs, files, pc, lastWritten,
                 inflight, issued>>

NextAdmin ==
  \/ PutAbout \/ PutSkills \/ PutProjects \/ PutResume \/ PostNewProject \/ DeleteProject
  \/ UploadAbout \/ UploadProject \/ UploadResume
  \/ LogoutAdmin \/ TickAdmin

SpecAdmin == InitAdmin /\ [][NextAdmin]_vars

(***************************************************************************)
(* Specification of one upload by a logged-in admin, over all kinds of file*)
(***************************************************************************)
UploadNames ==
  {NamePng, NameUpper, NameJpg, NameJpeg, NameWebp, NameGif, NamePdf, NameBare, NameHidden,
   NameTrailingDot, NameDotDot, NameDouble, NamePath, NameSlash, NameEmpty, NameLong}
UploadTypes == {TypePng, TypePdf, TypeImage}
UploadSizes == {0, 3, 4, HEAD_LENGTH - 1, HEAD_LENGTH, MAX_FILE_SIZE, MAX_FILE_SIZE + 1}
UploadContents == {PngContent, JpegContent, GifContent, WebpContent, WaveContent, PdfContent}

UploadFiles ==
  {FormFile(name, type, size, content) :
     name \in UploadNames, type \in UploadTypes, size \in UploadSizes,
     content \in UploadContents}
  \cup {NoFile, TextField}

UploadRoutes == {"about/upload", "projects/upload", "resume/upload"}

\* the upload route of the given path
UploadPOST(route, fs, t, environ, req) ==
  CASE route = "about/upload" -> AboutUploadPOST(fs, t, environ, req)
    [] route = "projects/upload" -> ProjectsUploadPOST(fs, t, environ, req)
    [] route = "resume/upload" -> ResumeUploadPOST(fs, t, environ, req)

InitUpload ==
  /\ now = 0 /\ nticks = 0 /\ resp = BaseResp
  /\ winStart = [k \in Keys |-> NoWindow] /\ winCount = [k \in Keys |-> 0]
  /\ rateLimitStore = EmptyStore
  /\ env \in AdminEnvs
  /\ jar = [b \in Browsers |-> IF b = ClientIP THEN LoggedInCookie ELSE NoCookie]
  /\ session = [b \in Browsers |-> b = ClientIP]
  /\ docs = InitDocs
  /\ files = {}
  /\ lastWritten = NoWrites
  /\ inflight = NoRequests
  /\ issued = {}
  /\ pc = "ready"

UploadOnce ==
  /\ pc = "ready"
  /\ \E route \in UploadRoutes, file \in UploadFiles, formOk \in BOOLEAN, writeOk \in BOOLEAN :
       LET req == UploadReq(route, ClientIP, RequestCookie(jar[ClientIP], now), file,
                            formOk, writeOk)
           out == UploadPOST(route, files, now, env, req)
       IN files' = out.files /\ resp' = out.resp
  /\ pc' = "done"
  /\ UNCHANGED <<now, nticks, rateLimitStore, env, winStart, winCount, jar, session, docs, lastWritten,
                 inflight, issued>>

NextUpload == UploadOnce

SpecUpload == InitUpload /\ [][NextUpload]_vars

(***************************************************************************)
(* Properties of the admin routes                                          *)
(***************************************************************************)
MutatingRoutes ==
  {"about", "skills", "projects", "resume", "projects/new", "projects/[id]"} \cup UploadRoutes

\* the step handled a request to a mutating admin route whose token
\* verifyAdmin rejects
UnauthorizedStep ==
  /\ pc' # pc
  /\ resp'.route \in MutatingRoutes
  /\ ~verifyAdmin(resp'.req.token, now, env)

\* C4: on every mutating admin route a request for which verifyAdmin returns
\* false is answered 401 {error: 'Unauthorized'}, the data documents and the
\* uploaded files stay as they are, and the body has not been read.
C4_AdminGuard ==
  [][UnauthorizedStep =>
       /\ resp'.status = 401 /\ resp'.error = "Unauthorized" /\ ~resp'.success
       /\ ~resp'.bodyRead /\ resp'.stored = {}
       /\ docs' = docs /\ files' = files]_vars

\* an upload of a valid image with a forged token was refused, after the
\* logged-in browser had changed a document
C4_Witness ==
  /\ resp.route = "about/upload" /\ resp.status = 401
  /\ resp.req.token = ForgedToken /\ resp.req.file = GoodFile /\ resp.req.writeOk
  /\ files = {}
  /\ docs # InitDocs

EndsWith(s, p) == Len(s) >= Len(p) /\ SubSeq(s, Len(s) - Len(p) + 1, Len(s)) = p

\* the sanitized name, in lower case, is an allowed extension after a dot, or
\* is an allowed extension by itself
HasAllowedExtension(name) ==
  LET n == ToLower(sanitizeFilename(name))
  IN \E e \in ALLOWED_EXTENSIONS : n = e \/ EndsWith(n, <<".">> \o e)

\* the content starts with the signature of a PNG, JPEG, GIF or WebP file
HasSignature(head) ==
  \/ StartsWith(head, <<137, 80, 78, 71>>)
  \/ StartsWith(head, <<255, 216, 255>>)
  \/ StartsWith(head, <<71, 73, 70, 56>>)
  \/ /\ StartsWith(head, <<82, 73, 70, 70>>)
     /\ Len(head) >= 12 /\ SubSeq(head, 9, 12) = <<87, 69, 66, 80>>

\* the error of the first check of the claim's list that the file fails
FirstFailing(file) ==
  IF file.kind = "none" THEN NoFileProvided
  ELSE IF file.size > MAX_FILE_SIZE THEN FileTooLarge
  ELSE IF file.size = 0 THEN FileEmpty
  ELSE IF ~HasAllowedExtension(file.name) THEN InvalidFileType
  ELSE IF ~StartsWith(file.type, IMAGE_PREFIX) THEN NotAnImage
  ELSE IF ~HasSignature(file.head) THEN InvalidImage
  ELSE ""

\* C9: validateImageUpload reports valid only for a file that is present, has
\* 0 < size <= 5 MB, a sanitized name with an allowed extension, a MIME type
\* starting with 'image/' and a PNG, JPEG, GIF or WebP signature; the first
\* failing check of that order determines the 400 error; an upload route
\* stores no file when validation fails.
C9_UploadValidation ==
  (resp.route \in UploadRoutes /\ resp.req.formOk) =>
    LET file == resp.req.file
        v == validateImageUpload(file)
    IN /\ v.valid =>
            /\ file.kind = "file" /\ 0 < file.size /\ file.size <= MAX_FILE_SIZE
            /\ HasAllowedExtension(file.name)
            /\ StartsWith(file.type, IMAGE_PREFIX)
            /\ HasSignature(file.head)
       /\ (file.kind # "text" /\ FirstFailing(file) # "") =>
            /\ ~v.valid /\ v.error = FirstFailing(file)
            /\ resp.status = 400 /\ resp.error = FirstFailing(file)
       /\ (file.kind # "text" /\ FirstFailing(file) = "" /\ file.size >= 4) => v.valid
       /\ ~v.valid =>
            /\ resp.status \in {400, 500} /\ ~resp.success
            /\ resp.stored = {}
            /\ \A f \in files : f.dir

\* a file with an image's name and type but the content of a PDF was refused
\* by the last check and nothing was stored
C9_Witness ==
  /\ resp.route = "projects/upload" /\ resp.status = 400 /\ resp.error = InvalidImage
  /\ resp.req.file = FormFile(NameUpper, TypePng, MAX_FILE_SIZE, PdfContent)
  /\ resp.req.writeOk
  /\ files = {}

\* a non-empty PDF file named *.pdf of type application/pdf
IsPdfFile(file) ==
  /\ file.kind = "file"
  /\ file.name = NamePdf /\ file.type = TypePdf
  /\ 0 < file.size /\ file.size <= MAX_FILE_SIZE
  /\ StartsWith(PdfContent, file.head)

\* C14: an authenticated admin can upload a PDF resume: POST
\* /api/admin/resume/upload with a non-empty file named '*.pdf' of type
\* application/pdf is answered 200 with success: true, and the file is
\* stored under folder 'resume' as resume-<timestamp>.pdf with content type
\* application/pdf.
C14_PdfResumeUpload ==
  (resp.route = "resume/upload" /\ resp.req.formOk /\ resp.req.writeOk
     /\ IsPdfFile(resp.req.file)) =>
    /\ resp.status = 200 /\ resp.success
    /\ resp.stored # {}
    /\ \A f \in resp.stored :
         /\ f.folder = "resume" /\ f.prefix = "resume" /\ f.ts = now
         /\ f.ext = <<"p", "d", "f">> /\ f.type = TypePdf
    /\ resp.stored \subseteq files

(***************************************************************************)
(* Specification of the PUT routes: two requests of the logged-in admin,   *)
(* over well-formed and malformed bodies                                   *)
(***************************************************************************)
PutRoutes == {"about", "skills", "projects", "resume"}

GoodSection == Section(JsStr(<<"T">>), JsArray(<<>>))
UntitledSection == Section(JsStr(<<>>), JsArray(<<>>))
ItemlessSection == Section(JsStr(<<"T">>), JsObject)

\* bodies that are not objects: JSON null, a JSON number, text that is no JSON
PlainBodies == {[k |-> "null"], [k |-> "primitive"], [k |-> "invalid"]}

AboutPutBodies ==
  {AboutDoc(title, intro, details, JsUndefined) :
     title \in {JsStr(<<"B">>), JsStr(<<>>), JsUndefined, JsNumber},
     intro \in {JsStr(<<"j">>), JsStr(<<>>), JsNull},
     details \in {JsArray(<<>>), JsObject, JsUndefined, JsStr(<<"d">>)}}

SkillsPutBodies ==
  {SkillsDoc(sections) :
     sections \in {JsArray(<<>>), JsArray(<<GoodSection>>),
                   JsArray(<<GoodSection, UntitledSection>>),
                   JsArray(<<ItemlessSection>>), JsArray(<<NumberSection>>),
                   JsArray(<<NullSection>>), JsArray(<<GoodSection, NullSection>>),
                   JsArray(<<UntitledSection, NullSection>>),
                   JsArray(<<NullSection, UntitledSection>>),
                   JsObject, JsUndefined, JsNull, JsNumber}}

ResumePutBodies ==
  {ResumeDoc(fileUrl, JsStr(<<"R">>)) :
     fileUrl \in {JsStr(<<"/", "r", ".", "p", "d", "f">>), JsStr(<<"u", BACKSLASH, "r">>),
                  JsStr(<<>>), JsNull, JsUndefined, JsNumber, JsObject, JsArray(<<>>)}}

ProjectsPutBodies ==
  {ProjectsDoc(initialFiles, projectItems) :
     initialFiles \in {JsArray(<<BoardFile>>), JsArray(<<>>), JsArray(<<ProjectP1>>),
                       JsArray(<<NullItem>>), JsObject, JsUndefined},
     projectItems \in {JsArray(<<ProjectP1>>), JsArray(<<ProjectP2>>), JsArray(<<>>),
                       JsArray(<<BoardFile>>), JsArray(<<NullItem>>), JsNull}}

PutBodies(route) ==
  PlainBodies \cup
    CASE route = "about" -> AboutPutBodies
      [] route = "skills" -> SkillsPutBodies
      [] route = "resume" -> ResumePutBodies
      [] route = "projects" -> ProjectsPutBodies

\* the PUT handler of the given path
PutHandler(route, d, t, environ, req) ==
  CASE route = "about" -> AboutPUT(d, t, environ, req)
    [] route = "skills" -> SkillsPUT(d, t, environ, req)
    [] route = "resume" -> ResumePUT(d, t, environ, req)
    [] route = "projects" -> ProjectsPUT(d, t, environ, req)

InitPut ==
  /\ now = 0 /\ nticks = 0 /\ resp = BaseResp
  /\ winStart = [k \in Keys |-> NoWindow] /\ winCount = [k \in Keys |-> 0]
  /\ rateLimitStore = EmptyStore
  /\ env \in AdminEnvs
  /\ jar = [b \in Browsers |-> IF b = ClientIP THEN LoggedInCookie ELSE NoCookie]
  /\ session = [b \in Browsers |-> b = ClientIP]
  /\ docs = InitDocs
  /\ files = {}
  /\ lastWritten = NoWrites
  /\ inflight = NoRequests
  /\ issued = {}
  /\ pc = "ready"

PutOnce ==
  \E route \in PutRoutes : \E body \in PutBodies(route) :
    \E len \in {NoLength, PROJECTS_BODY_SIZE + 1}, writeOk \in BOOLEAN :
      /\ (len # NoLength => route = "projects")
      /\ DataStep(PutHandler(route, docs, now, env,
                             AdminReq(route, ClientIP, RequestCookie(jar[ClientIP], now),
                                      len, body, writeOk)))

NextPut == PutOnce

SpecPut == InitPut /\ [][NextPut]_vars

(***************************************************************************)
(* Properties of the PUT routes                                            *)
(***************************************************************************)
\* the field of a body as the claims read it: a body that is no object has none
Given(body, name) == IF body.k = "object" THEN body[name] ELSE JsUndefined

\* a section with a truthy title and an array of items
WellFormedSection(section) ==
  section.k = "object" /\ Truthy(section.title) /\ IsArray(section.items)

\* the body fails the structural requirements of its route
FailsStructure(route, body) ==
  CASE route = "about" ->
         ~(Truthy(Given(body, "title")) /\ Truthy(Given(body, "intro"))
             /\ IsArray(Given(body, "details")))
    [] route = "skills" ->
         \/ ~IsArray(Given(body, "sections"))
         \/ \E i \in 1..Len(Given(body, "sections").s) :
              ~WellFormedSection(Given(body, "sections").s[i])
    [] route = "resume" -> Given(body, "fileUrl").t \notin {"string", "null"}
    [] route = "projects" ->
         ~IsArray(Given(body, "initialFiles")) \/ ~IsArray(Given(body, "projectItems"))

\* the step handled a PUT whose body arrived as JSON within the size limit
PutStep ==
  /\ pc' # pc
  /\ resp'.route \in PutRoutes
  /\ resp'.req.body.k # "invalid"
  /\ resp'.req.contentLength = NoLength

\* C11: an authenticated PUT whose body fails the route's structural
\* validation is answered 400 and leaves the stored documents unchanged
\* ('Invalid section structure' for a skills section without a truthy title
\* or an array items); documents change only on a request that passed
\* validation and was answered 200; a failed write is answered 500.
C11_PutValidation ==
  [][PutStep =>
       LET req == resp'.req
       IN /\ FailsStructure(req.route, req.body) =>
               /\ resp'.status = 400 /\ docs' = docs
               /\ (req.route = "skills" /\ IsArray(Given(req.body, "sections")))
                    => resp'.error = "Invalid section structure"
          /\ docs' # docs => (~FailsStructure(req.route, req.body) /\ resp'.status = 200)
          /\ (~req.writeOk /\ resp'.status # 400) => (resp'.status = 500 /\ docs' = docs)]_vars

(***************************************************************************)
(* GET of the data documents                                               *)
(***************************************************************************)
RESUME == <<"R", "e", "s", "u", "m", "e">>
GetReq(route) == [route |-> route, method |-> "GET"]

\* app/api/admin/about GET
AboutGET(d, environ) ==
  LET r == [BaseResp EXCEPT !.route = "about", !.req = GetReq("about")]
      data == readDataFile(d, environ, "about.json")
  IN IF data.ok THEN [r EXCEPT !.status = 200, !.data = data.data]
     ELSE [r EXCEPT !.status = 500, !.error = "Failed to read about data"]

\* app/api/admin/skills GET
SkillsGET(d, environ) ==
  LET r == [BaseResp EXCEPT !.route = "skills", !.req = GetReq("skills")]
      data == readDataFile(d, environ, "skills.json")
  IN IF data.ok THEN [r EXCEPT !.status = 200, !.data = data.data]
     ELSE [r EXCEPT !.status = 500, !.error = "Failed to read skills data"]

\* app/api/admin/projects GET
ProjectsGET(d, environ) ==
  LET r == [BaseResp EXCEPT !.route = "projects", !.req = GetReq("projects")]
      data == readDataFile(d, environ, "projects.json")
  IN IF data.ok THEN [r EXCEPT !.status = 200, !.data = data.data]
     ELSE [r EXCEPT !.status = 500, !.error = "Failed to read projects data"]

\* variant: a resume document that cannot be read is an error like the others
ResumeGET_failing(d, environ) ==
  LET r == [BaseResp EXCEPT !.route = "resume", !.req = GetReq("resume")]
      data == readDataFile(d, environ, "resume.json")
  IN IF data.ok THEN [r EXCEPT !.status = 200, !.data = data.data]
     ELSE [r EXCEPT !.status = 500, !.error = "Failed to read resume data"]

\* app/api/admin/resume GET: the inner catch answers with the default document
ResumeGET(d, environ) ==
  LET r == [BaseResp EXCEPT !.route = "resume", !.req = GetReq("resume")]
      data == readDataFile(d, environ, "resume.json")
  IN IF data.ok THEN [r EXCEPT !.status = 200, !.data = data.data]
     ELSE [r EXCEPT !.status = 200, !.data = ResumeDoc(JsNull, JsStr(RESUME))]

\* the GET handler of the given path
GetHandler(route, d, environ) ==
  CASE route = "about" -> AboutGET(d, environ)
    [] route = "skills" -> SkillsGET(d, environ)
    [] route = "projects" -> ProjectsGET(d, environ)
    [] route = "resume" -> ResumeGET(d, environ)

(***************************************************************************)
(* Specification of the data documents: writes and reads of the four       *)
(* documents, in local and in serverless mode, where the key-value store   *)
(* can stop answering and a document can be missing from the deployment    *)
(***************************************************************************)
\* the values written to a document
WriteValues(f) ==
  CASE f = "about.json" ->
         {AboutDoc(JsStr(<<"B">>), JsStr(<<"j">>), JsArray(<<>>), JsStr(<<"u", BACKSLASH, "i">>)),
          AboutDoc(JsStr(<<"B">>), JsStr(<<"j">>), JsArray(<<>>), JsUndefined)}
    [] f = "skills.json" -> {SkillsDoc(JsArray(<<GoodSection>>))}
    [] f = "projects.json" ->
         {ProjectsDoc(JsArray(<<BoardFile>>), JsArray(<<ProjectP2>>)),
          ProjectsDoc(JsArray(<<>>), JsArray(<<ProjectP1>>))}
    [] f = "resume.json" ->
         {ResumeDoc(JsStr(<<"u", BACKSLASH, "r">>), JsStr(<<"R">>)),
          ResumeDoc(JsNull, JsStr(<<"Q">>))}

InitData ==
  /\ now = 0 /\ nticks = 0 /\ resp = BaseResp
  /\ winStart = [k \in Keys |-> NoWindow] /\ winCount = [k \in Keys |-> 0]
  /\ rateLimitStore = EmptyStore
  /\ env \in AdminEnvs
  /\ jar = [b \in Browsers |-> NoCookie]
  /\ session = [b \in Browsers |-> FALSE]
  /\ \E missing \in DataFiles \cup {"none"} :
       docs = [InitDocs EXCEPT !.disk = [f \in DataFiles |-> [@[f] EXCEPT !.present = f # missing]]]
  /\ files = {}
  /\ lastWritten = NoWrites
  /\ inflight = NoRequests
  /\ issued = {}
  /\ pc = "ready"

\* a call of writeDataFile(f, data); in serverless mode it throws when the
\* store does not answer, and a write to disk can fail
WriteData ==
  \E f \in DataFiles : \E data \in WriteValues(f) : \E ok \in BOOLEAN :
    /\ (isServerless(env) /\ ~docs.kvUp) => ~ok
    /\ docs' = IF ok THEN writeDataFile(docs, env, f, data) ELSE docs
    /\ lastWritten' = IF ok THEN [lastWritten EXCEPT ![f] = [set |-> TRUE, data |-> data]]
                      ELSE lastWritten
    /\ resp' = [BaseResp EXCEPT !.route = "writeDataFile", !.success = ok,
                                !.req = [route |-> "writeDataFile", file |-> f, data |-> data]]
    /\ UNCHANGED <<now, nticks, rateLimitStore, env, winStart, winCount, jar, session, files, pc,
                 inflight, issued>>

\* a call of readDataFile(f)
ReadData ==
  \E f \in DataFiles :
    LET data == readDataFile(docs, env, f)
    IN /\ resp' = [BaseResp EXCEPT !.route = "readDataFile", !.success = data.ok,
                                   !.req = [route |-> "readDataFile", file |-> f],
                                   !.data = IF data.ok THEN data.data ELSE NoData]
       /\ UNCHANGED <<now, nticks, rateLimitStore, env, winStart, winCount, jar, session, docs,
                      files, lastWritten, pc, inflight, issued>>

\* a GET of one of the documents
GetData ==
  \E route \in PutRoutes :
    /\ resp' = GetHandler(route, docs, env)
    /\ UNCHANGED <<now, nticks, rateLimitStore, env, winStart, winCount, jar, session, docs,
                   files, lastWritten, pc, inflight, issued>>

\* the key-value store stops answering, and answers again
KvOutage ==
  /\ isServerless(env) /\ docs.kvUp
  /\ docs' = [docs EXCEPT !.kvUp = FALSE]
  /\ UNCHANGED <<now, nticks, rateLimitStore, env, resp, winStart, winCount, jar, session,
                 files, lastWritten, pc, inflight, issued>>

KvRecovery ==
  /\ isServerless(env) /\ ~docs.kvUp
  /\ docs' = [docs EXCEPT !.kvUp = TRUE]
  /\ UNCHANGED <<now, nticks, rateLimitStore, env, resp, winStart, winCount, jar, session,
                 files, lastWritten, pc, inflight, issued>>

NextData == WriteData \/ ReadData \/ GetData \/ KvOutage \/ KvRecovery

SpecData == InitData /\ [][NextData]_vars

(***************************************************************************)
(* Properties of the data documents                                        *)
(***************************************************************************)
\* the step is a call of readDataFile(f)
ReadStep(f) ==
  /\ resp'.route = "readDataFile" /\ resp'.req.file = f
  /\ docs' = docs /\ lastWritten' = lastWritten

\* the read returned the given document with its urls normalized
Returned(r, f, data) == r.success /\ r.data = normalizeImageUrls(f, data)

\* C15 (as stated): after writeDataFile(f, d) has succeeded, every later
\* readDataFile(f) with no write of f in between returns d with the
\* backslashes of its urls replaced, in local and in serverless mode; in
\* serverless mode, while nothing was written for f, it returns the bundled
\* file.
C15_ReadYourWrites ==
  [][\A f \in DataFiles :
       ReadStep(f) =>
         /\ lastWritten[f].set => Returned(resp', f, lastWritten[f].data)
         /\ (isServerless(env) /\ ~lastWritten[f].set /\ docs.disk[f].present)
              => Returned(resp', f, InitDoc(f))]_vars

\* C15 (amended): a read returns the last written document in local mode,
\* and in serverless mode whenever the key-value store answers the read;
\* in serverless mode a read that finds no value in the store (nothing was
\* written, or the store does not answer) returns the bundled file.
C15_ReadYourWritesWhileStoreAnswers ==
  [][\A f \in DataFiles :
       ReadStep(f) =>
         /\ (lastWritten[f].set /\ (isServerless(env) => docs.kvUp))
              => Returned(resp', f, lastWritten[f].data)
         /\ (isServerless(env) /\ (~lastWritten[f].set \/ ~docs.kvUp) /\ docs.disk[f].present)
              => Returned(resp', f, InitDoc(f))]_vars

\* a read in serverless mode returned the written document, a backslash replaced
C15_Witness ==
  /\ resp.route = "readDataFile" /\ resp.success /\ isServerless(env) /\ docs.kvUp
  /\ lastWritten[resp.req.file].set
  /\ resp.data = normalizeImageUrls(resp.req.file, lastWritten[resp.req.file].data)
  /\ resp.data # lastWritten[resp.req.file].data

\* the step is a GET of the given path
GetStep(route) == resp'.route = route /\ resp'.req = GetReq(route) /\ docs' = docs

\* the document of the path and the error of its GET
RouteFile(route) ==
  CASE route = "about" -> "about.json"
    [] route = "skills" -> "skills.json"
    [] route = "projects" -> "projects.json"
    [] route = "resume" -> "resume.json"
ReadError(route) ==
  CASE route = "about" -> "Failed to read about data"
    [] route = "skills" -> "Failed to read skills data"
    [] route = "projects" -> "Failed to read projects data"
    [] route = "resume" -> "Failed to read resume data"

\* nothing readable is stored for the file: the file is missing or is no JSON,
\* and in serverless mode the store gives no value either
Unreadable(f) ==
  ~docs.disk[f].present /\ (isServerless(env) => ~(docs.kvUp /\ docs.kv[f].present))

\* C17: GET of the resume document never fails: it is answered 200, with the
\* default {fileUrl: null, title: 'Resume'} when the stored document cannot be
\* read; GET of the about, skills and projects documents answers 500 with
\* 'Failed to read ... data' when the document cannot be read.
C17_ResumeGetNeverFails ==
  [][\A route \in PutRoutes :
       GetStep(route) =>
         IF route = "resume"
         THEN /\ resp'.status = 200 /\ resp'.error = ""
              /\ Unreadable("resume.json") => resp'.data = ResumeDoc(JsNull, JsStr(RESUME))
         ELSE Unreadable(RouteFile(route)) <=>
                (resp'.status = 500 /\ resp'.error = ReadError(route))]_vars

\* the resume document is missing and its GET answered with the default
C17_Witness ==
  /\ resp.route = "resume" /\ resp.status = 200
  /\ resp.data = ResumeDoc(JsNull, JsStr(RESUME))
  /\ ~isServerless(env) /\ ~docs.disk["resume.json"].present

(***************************************************************************)
(* Specification of the rate limiter: calls of rateLimitLogin and          *)
(* rateLimitContact by two clients while time passes, starting with an     *)
(* empty map or with a map crowded by the first requests of other clients  *)
(***************************************************************************)
\* the map at time 1 after one login request of each of CLEANUP_THRESHOLD + 1
\* other clients, whose windows closed at time 0, and a login request that
\* the client without address made at time 0
CrowdedStore ==
  (RateLimitKey("login", "unknown") :> [count |-> 1, resetTime |-> LOGIN_WINDOW])
    @@ [k \in {RateLimitKey("login", ToString(n)) : n \in 1..(CLEANUP_THRESHOLD + 1)} |->
          [count |-> 1, resetTime |-> 0]]

InitLimiter ==
  /\ now = 1
  /\ nticks = 0
  /\ resp = BaseResp
  /\ winStart = [k \in Keys |-> NoWindow]
  /\ winCount = [k \in Keys |-> 0]
  /\ jar = [b \in Browsers |-> NoCookie]
  /\ session = [b \in Browsers |-> FALSE]
  /\ docs = InitDocs
  /\ files = {}
  /\ lastWritten = NoWrites
  /\ inflight = NoRequests
  /\ issued = {}
  /\ rateLimitStore \in {EmptyStore, CrowdedStore}
  /\ env = EnvFull
  /\ pc = "run"

\* the result of a call, with the prefix and the Date.now() of the call
LimiterResp(prefix, ip, result) ==
  [BaseResp EXCEPT !.route = "rateLimit", !.ip = ip, !.rl = result,
                   !.req = [route |-> "rateLimit", prefix |-> prefix, at |-> now]]

\* a call of rateLimitLogin(ip)
LimitLogin ==
  \E ip \in ClientIPs :
    LET out == rateLimitLogin(rateLimitStore, now, ip)
    IN /\ rateLimitStore' = out.store
       /\ resp' = LimiterResp("login", ip, out.result)
       /\ UNCHANGED <<now, nticks, env, winStart, winCount, jar, session, docs, files,
                      lastWritten, pc, inflight, issued>>

\* a call of rateLimitContact(ip): one of the clients uses the contact form
LimitContact ==
  \E ip \in {ClientIP} :
    LET out == rateLimitContact(rateLimitStore, now, ip)
    IN /\ rateLimitStore' = out.store
       /\ resp' = LimiterResp("contact", ip, out.result)
       /\ UNCHANGED <<now, nticks, env, winStart, winCount, jar, session, docs, files,
                      lastWritten, pc, inflight, issued>>

\* a login window or a contact window passes
TickLimiter == \E d \in {LOGIN_WINDOW, CONTACT_WINDOW} : Tick(d)

NextLimiter == LimitLogin \/ LimitContact \/ TickLimiter

SpecLimiter == InitLimiter /\ [][NextLimiter]_vars

(***************************************************************************)
(* Properties of the rate limiter                                          *)
(***************************************************************************)
\* the step is a call of the limiter, and the key the call is for
CallStep == resp'.route = "rateLimit" /\ now' = now /\ resp'.req.at = now
CalledKey == <<resp'.req.prefix, resp'.ip>>

\* the window and the limit of a key, by its prefix
WindowOf(k) == IF k[1] = "login" THEN 15 * 60 * 1000 ELSE 60 * 60 * 1000
LimitOf(k) == IF k[1] = "login" THEN 5 ELSE 13

\* C18: the limiter uses a fixed window: the first request of a key, and the
\* first request with now > resetTime, opens a window with count 1, remaining
\* max - 1 and resetTime = now + window; every other request, one at
\* now = resetTime included, is counted in the old window and leaves
\* resetTime as it is, whether it is allowed or denied.
C18_FixedWindow ==
  [][CallStep =>
       LET k == CalledKey
       IN IF k \notin DOMAIN rateLimitStore \/ now > rateLimitStore[k].resetTime
          THEN /\ rateLimitStore'[k] = [count |-> 1, resetTime |-> now + WindowOf(k)]
               /\ resp'.rl = [allowed |-> TRUE, remaining |-> LimitOf(k) - 1,
                              resetTime |-> now + WindowOf(k)]
          ELSE /\ rateLimitStore'[k].resetTime = rateLimitStore[k].resetTime
               /\ resp'.rl.resetTime = rateLimitStore[k].resetTime
               /\ rateLimitStore'[k].count =
                    rateLimitStore[k].count + (IF resp'.rl.allowed THEN 1 ELSE 0)]_vars

\* a request made at exactly resetTime was counted in the old window
C18_Witness ==
  /\ resp.route = "rateLimit" /\ resp.req.at = resp.rl.resetTime
  /\ resp.rl.allowed /\ resp.rl.remaining < LimitOf(<<resp.req.prefix, resp.ip>>) - 1
  /\ rateLimitStore[<<resp.req.prefix, resp.ip>>].count >= 2

\* C19: every stored record has 1 <= count <= maxRequests of its limiter (5
\* for login, 13 for contact); an allowed result has remaining =
\* maxRequests - count, between 0 and maxRequests - 1; a denied result has
\* remaining = 0 and leaves the record unchanged.
C19_StoreInvariant ==
  /\ [](\A k \in DOMAIN rateLimitStore :
          1 <= rateLimitStore[k].count /\ rateLimitStore[k].count <= LimitOf(k))
  /\ [][CallStep =>
          LET k == CalledKey
          IN IF resp'.rl.allowed
             THEN /\ resp'.rl.remaining = LimitOf(k) - rateLimitStore'[k].count
                  /\ resp'.rl.remaining \in 0..(LimitOf(k) - 1)
             ELSE /\ resp'.rl.remaining = 0
                  /\ k \in DOMAIN rateLimitStore
                  /\ rateLimitStore'[k] = rateLimitStore[k]]_vars

\* a request was denied at the limit
C19_Witness ==
  /\ resp.route = "rateLimit" /\ ~resp.rl.allowed /\ resp.rl.remaining = 0
  /\ rateLimitStore[<<resp.req.prefix, resp.ip>>].count = LimitOf(<<resp.req.prefix, resp.ip>>)

\* C20: a call of the limiter for one key changes no live record of another
\* key, and a request is denied only when the record of its own key is at the
\* limit: the requests of one client do not count against another client, nor
\* the contact submissions of a client against its logins, or the reverse.
C20_KeyIsolation ==
  [][CallStep =>
       LET k == CalledKey
       IN /\ \A k2 \in DOMAIN rateLimitStore \ {k} :
               rateLimitStore[k2].resetTime >= now =>
                 (k2 \in DOMAIN rateLimitStore' /\ rateLimitStore'[k2] = rateLimitStore[k2])
          /\ ~resp'.rl.allowed =>
               /\ k \in DOMAIN rateLimitStore
               /\ rateLimitStore[k].count >= LimitOf(k)
               /\ rateLimitStore[k].resetTime >= now
          /\ (k \in DOMAIN rateLimitStore /\ rateLimitStore[k].resetTime >= now
                /\ rateLimitStore[k].count < LimitOf(k)) => resp'.rl.allowed]_vars

\* the client used up its contact submissions and its login is allowed, while
\* the record of the other client outlived the clean-up of the crowded map
C20_Witness ==
  /\ resp.route = "rateLimit" /\ resp.req.prefix = "login" /\ resp.ip = ClientIP
  /\ resp.rl.allowed
  /\ <<"contact", ClientIP>> \in DOMAIN rateLimitStore
  /\ rateLimitStore[<<"contact", ClientIP>>].count = 13
  /\ rateLimitStore[<<"contact", ClientIP>>].resetTime >= resp.req.at
  /\ <<"login", "unknown">> \in DOMAIN rateLimitStore
  /\ rateLimitStore[<<"login", "unknown">>] = [count |-> 1, resetTime |-> LOGIN_WINDOW]
  /\ Cardinality(DOMAIN rateLimitStore) <= CLEANUP_THRESHOLD

(***************************************************************************)
(* Specification of the traffic of one client: contact requests of every   *)
(* outcome and logins with a wrong and with the right password, while      *)
(* time passes                                                             *)
(***************************************************************************)
\* one contact request for each outcome of the handler
TrafficContactReqs ==
  {ContactReq(DirectHeaders, MAX_BODY_SIZE + 1,
              ObjectBody(GoodName, GoodEmail, GoodMessage, JsUndefined), TRUE, TRUE),
   ContactReq(DirectHeaders, 100, OtherBody("invalid"), TRUE, TRUE),
   ContactReq(DirectHeaders, 100,
              ObjectBody(JsUndefined, GoodEmail, GoodMessage, JsUndefined), TRUE, TRUE),
   ContactReq(DirectHeaders, 100,
              ObjectBody(GoodName, GoodEmail, GoodMessage, JsStr(<<"a">>)), TRUE, TRUE),
   ContactReq(DirectHeaders, 100,
              ObjectBody(GoodName, GoodEmail, GoodMessage, JsUndefined), TRUE, FALSE),
   ContactReq(DirectHeaders, 100,
              ObjectBody(GoodName, GoodEmail, GoodMessage, JsUndefined), TRUE, TRUE)}

InitTraffic ==
  /\ InitCommon
  /\ rateLimitStore = EmptyStore
  /\ env = EnvFull
  /\ pc = "run"

TrafficContact ==
  /\ pc = "run"
  /\ \E req \in TrafficContactReqs :
       LET out == ContactPOST(rateLimitStore, now, env, req)
       IN rateLimitStore' = out.store /\ resp' = out.resp
  /\ UNCHANGED <<now, nticks, env, winStart, winCount, jar, session, docs, files, pc,
                 lastWritten, inflight, issued>>

TrafficLogin ==
  /\ pc = "run"
  /\ \E pw \in {AdminPassword, WrongPassword} :
       LET req == LoginReq(ClientIP, 100, LoginBody("object", JsStr(pw)))
           out == LoginPOST(rateLimitStore, now, env, req)
       IN /\ rateLimitStore' = out.store
          /\ resp' = out.resp
          /\ jar' = IF out.resp.cookieSet THEN [jar EXCEPT ![ClientIP] = out.cookie] ELSE jar
          /\ session' = [session EXCEPT ![ClientIP] = @ \/ out.resp.status = 200]
  /\ UNCHANGED <<now, nticks, env, winStart, winCount, docs, files, pc, lastWritten, inflight, issued>>

TickTraffic == \E d \in {LOGIN_WINDOW, CONTACT_WINDOW} : Tick(d)

NextTraffic == TrafficContact \/ TrafficLogin \/ TickTraffic

SpecTraffic == InitTraffic /\ [][NextTraffic]_vars

(***************************************************************************)
(* Properties of the traffic of one client                                 *)
(***************************************************************************)
\* the step handled a contact or a login request, and the key of its limiter
RequestStep == now' = now /\ resp'.route \in {"contact", "login"}
RequestKey == <<resp'.route, resp'.ip>>

\* the number of further requests the limiter lets through for key k at time t
Slots(store, k, t) ==
  IF k \in DOMAIN store /\ store[k].resetTime >= t
  THEN LimitOf(k) - store[k].count
  ELSE LimitOf(k)

C22_LargeRequestNotCounted ==
  [][(RequestStep /\ resp'.route = "contact" /\ resp'.status = 413) =>
       Slots(rateLimitStore', RequestKey, now) = Slots(rateLimitStore, RequestKey, now)]_vars

(***************************************************************************)
(* Specification of sanitizeFilename, over all short names and over names  *)
(* around the length limit                                                 *)
(***************************************************************************)
FilenameAlphabet == {"a", ".", "/", "-"}
ShortNames == UNION {[1..k -> FilenameAlphabet] : k \in 0..(MaxLen + 1)}
Repeat(c, n) == [i \in 1..n |-> c]

\* names of MAX_FILENAME - 5 to MAX_FILENAME + 1 letters followed by a short name
LongNames ==
  {Repeat("a", n) \o tail : n \in (MAX_FILENAME - 5)..(MAX_FILENAME + 1), tail \in ShortNames}

InitFilename ==
  /\ InitCommon
  /\ rateLimitStore = EmptyStore
  /\ env = EnvFull
  /\ pc = "ready"

\* a call of sanitizeFilename(filename)
SanitizeOnce ==
  /\ pc = "ready"
  /\ \E filename \in ShortNames \cup LongNames :
       resp' = [BaseResp EXCEPT !.route = "sanitizeFilename",
                                !.req = [route |-> "sanitizeFilename", filename |-> filename],
                                !.data = JsStr(sanitizeFilename(filename))]
  /\ pc' = "done"
  /\ UNCHANGED <<now, nticks, rateLimitStore, env, winStart, winCount, jar, session, docs,
                 files, lastWritten, inflight, issued>>

NextFilename == SanitizeOnce

SpecFilename == InitFilename /\ [][NextFilename]_vars

(***************************************************************************)
(* Properties of sanitizeFilename                                          *)
(***************************************************************************)
\* C23: for every input the result of sanitizeFilename is non-empty, consists
\* only of characters from [A-Za-z0-9._-], contains no '..', neither begins
\* nor ends with '.', and is at most 100 characters long.
C23_SanitizedFilename ==
  resp.route = "sanitizeFilename" =>
    LET name == resp.data.s
    IN /\ name # <<>>
       /\ \A i \in 1..Len(name) : name[i] \in FilenameChars
       /\ \A i \in 1..(Len(name) - 1) : ~(name[i] = "." /\ name[i + 1] = ".")
       /\ name[1] # "." /\ name[Len(name)] # "."
       /\ Len(name) <= 100

(***************************************************************************)
(* safeJsonParse.  A JSON text is kept as whether JSON.parse accepts it,   *)
(* the value it parses to, and whether its top-level object has a key      *)
(* "__proto__".                                                            *)
(***************************************************************************)
JsonText(value, protoKey) == [valid |-> TRUE, value |-> value, protoKey |-> protoKey]
InvalidText == [valid |-> FALSE, value |-> JsUndefined, protoKey |-> FALSE]

\* '__proto__' in parsed: an own key, or the accessor that every object and
\* array inherits from Object.prototype unless the runtime was started
\* without it (node --disable-proto=delete)
ProtoIn(text, protoAccessor) == text.protoKey \/ protoAccessor

\* safeJsonParse(json): the value returned
safeJsonParse(text, protoAccessor) ==
  IF ~text.valid THEN JsNull
  ELSE IF Truthy(text.value) /\ text.value.t \in {"object", "array"}
            /\ ProtoIn(text, protoAccessor)
  THEN JsNull
  ELSE text.value

(***************************************************************************)
(* Specification of safeJsonParse, over texts of every kind of value       *)
(***************************************************************************)
JsonTexts ==
  {JsonText(JsStr(x), FALSE) : x \in Strs(MaxLen)}
    \cup {JsonText(v, FALSE) :
            v \in {JsNull, JsNumber, JsObject, JsArray(<<>>)}}
    \cup {JsonText(JsObject, TRUE), InvalidText}

InitJson ==
  /\ InitCommon
  /\ rateLimitStore = EmptyStore
  /\ env = EnvFull
  /\ pc = "ready"

\* a call of safeJsonParse(json)
ParseOnce ==
  /\ pc = "ready"
  /\ \E text \in JsonTexts, protoAccessor \in BOOLEAN :
       resp' = [BaseResp EXCEPT !.route = "safeJsonParse",
                                !.req = [route |-> "safeJsonParse", json |-> text,
                                         protoAccessor |-> protoAccessor],
                                !.data = safeJsonParse(text, protoAccessor)]
  /\ pc' = "done"
  /\ UNCHANGED <<now, nticks, rateLimitStore, env, winStart, winCount, jar, session, docs,
                 files, lastWritten, inflight, issued>>

NextJson == ParseOnce

SpecJson == InitJson /\ [][NextJson]_vars

(***************************************************************************)
(* Properties of safeJsonParse                                             *)
(***************************************************************************)
\* C24: safeJsonParse returns the parsed value for every valid JSON text
\* whose top-level object carries no '__proto__' key, ordinary objects and
\* arrays included, and returns null for text that is not valid JSON or
\* whose top-level object carries a '__proto__' key.
C24_SafeJsonParse ==
  resp.route = "safeJsonParse" =>
    LET text == resp.req.json
    IN resp.data = IF ~text.valid \/ text.protoKey THEN JsNull ELSE text.value

(***************************************************************************)
(* Specification of the project list: an admin adds and deletes projects,  *)
(* one request after the other                                             *)
(***************************************************************************)
MaxItems == 3      \* projects in the list

\* the bodies of the added projects: one without id, one with the id of a
\* project of the bundled list, one with an image url that holds a backslash
ProjectBodies ==
  {NewBody(JsUndefined, JsStr(<<"N">>)),
   NewBody(JsStr(<<"p", "1">>), JsStr(<<"P">>)),
   [NewBody(JsStr(<<"p", "2">>), JsStr(<<"Q">>)) EXCEPT
      !.images = JsArray(<<JsStr(<<"u", BACKSLASH, "p", "2">>)>>)]}

ProjectIds == {<<"p", "1">>, <<"p", "2">>, AbsentId}

\* the projects document as readDataFile returns it
ProjectsRead(d) == readDataFile(d, env, "projects.json").data

InitProjects ==
  /\ now = 0 /\ nticks = 0 /\ resp = BaseResp
  /\ winStart = [k \in Keys |-> NoWindow] /\ winCount = [k \in Keys |-> 0]
  /\ rateLimitStore = EmptyStore
  /\ env \in AdminEnvs
  /\ jar = [b \in Browsers |-> IF b = ClientIP THEN LoggedInCookie ELSE NoCookie]
  /\ session = [b \in Browsers |-> b = ClientIP]
  /\ docs = InitDocs
  /\ files = {}
  /\ lastWritten = NoWrites
  /\ inflight = NoRequests
  /\ issued = {}
  /\ pc = "run"

\* the effect of a request that answered `out`
ProjectStep(out) ==
  /\ docs' = out.docs /\ resp' = out.resp
  /\ lastWritten' = NoteWrites(out.docs)
  /\ UNCHANGED <<now, nticks, rateLimitStore, env, winStart, winCount, jar, session, files, pc,
                 inflight, issued>>

AppendProject ==
  /\ Len(ProjectsRead(docs).projectItems.s) < MaxItems
  /\ \E body \in ProjectBodies, writeOk \in BOOLEAN :
       ProjectStep(ProjectsNewPOST(docs, now, env,
                     AdminReq("projects/new", ClientIP, RequestCookie(jar[ClientIP], now),
                              NoLength, body, writeOk)))

RemoveProject ==
  \E id \in ProjectIds, writeOk \in BOOLEAN :
    ProjectStep(ProjectDELETE(docs, now, env,
                  DeleteReq(ClientIP, RequestCookie(jar[ClientIP], now), id, writeOk)))

NextProjects == AppendProject \/ RemoveProject

SpecProjects == InitProjects /\ [][NextProjects]_vars

(***************************************************************************)
(* Properties of the project list                                          *)
(***************************************************************************)
\* the step is a DELETE of project id that was answered 200
DeletedStep(id) ==
  resp'.route = "projects/[id]" /\ resp'.req.id = id /\ resp'.status = 200

\* the positions of the elements with the given id
Positions(items, id) == {i \in 1..Len(items) : items[i].id = JsStr(id)}

MaxRequests == 2   \* requests that reach their write

\* the steps taken so far by the requests that passed their read
Clock == Len(inflight) + Cardinality({i \in 1..Len(inflight) : inflight[i].done})

InitRace == InitProjects

\* the handler of a request, run on the documents d
RaceHandler(d, t, req) ==
  IF req.route = "projects/new" THEN ProjectsNewPOST(d, t, env, req)
  ELSE ProjectDELETE(d, t, env, req)

\* the read step of a request: an answer other than success is given at once,
\* otherwise the request waits for its write with the documents it read
ReadRequest(req) ==
  LET out == RaceHandler(docs, now, req)
  IN /\ IF out.resp.status = 200
        THEN /\ Len(inflight) < MaxRequests
             /\ inflight' = Append(inflight, [req |-> req, read |-> docs, t |-> now,
                                              readAt |-> Clock + 1, wroteAt |-> 0,
                                              done |-> FALSE, resp |-> BaseResp])
             /\ resp' = resp
        ELSE /\ resp' = out.resp
             /\ inflight' = inflight
     /\ UNCHANGED <<now, nticks, rateLimitStore, env, winStart, winCount, jar, session, docs,
                    files, lastWritten, pc, issued>>

\* the racing requests: a POST with a title and one without, a DELETE of a
\* project of the bundled list and one of an absent id; with the cookie of the
\* logged-in browser or a forged token
RaceBodies == {NewBody(JsUndefined, JsStr(<<"N">>)), NewBody(JsUndefined, JsUndefined)}
RaceIds == {<<"p", "1">>, AbsentId}
RaceTokens == {RequestCookie(jar[ClientIP], now), ForgedToken}

ReadForAdd ==
  \E body \in RaceBodies, token \in RaceTokens :
    ReadRequest(AdminReq("projects/new", ClientIP, token, NoLength, body, TRUE))

ReadForDelete ==
  \E id \in RaceIds, token \in RaceTokens :
    ReadRequest(DeleteReq(ClientIP, token, id, TRUE))

\* the write step of the i-th waiting request: what it made of the documents
\* it read replaces the stored document
WriteBack ==
  \E i \in 1..Len(inflight), writeOk \in BOOLEAN :
    LET r == inflight[i]
        req == [r.req EXCEPT !.writeOk = writeOk]
        out == RaceHandler(r.read, r.t, req)
        stored == IF out.resp.status = 200 THEN Overwrite(docs, out.docs, "projects.json")
                  ELSE docs
    IN /\ ~r.done
       /\ docs' = stored
       /\ resp' = out.resp
       /\ lastWritten' = NoteWrites(stored)
       /\ inflight' = [inflight EXCEPT ![i] = [r EXCEPT !.req = req, !.done = TRUE,
                                                        !.wroteAt = Clock + 1,
                                                        !.resp = out.resp]]
       /\ UNCHANGED <<now, nticks, rateLimitStore, env, winStart, winCount, jar, session,
                      files, pc, issued>>

NextRace == ReadForAdd \/ ReadForDelete \/ WriteBack

SpecRace == InitRace /\ [][NextRace]_vars

(***************************************************************************)
(* Properties of concurrent project requests                               *)
(***************************************************************************)
\* the step is the write of waiting request j
WritesNow(j) ==
  /\ Len(inflight') = Len(inflight) /\ j \in 1..Len(inflight)
  /\ ~inflight[j].done /\ inflight'[j].done

\* request i wrote before this step, after request j had read; the store took
\* both writes
Raced(i, j) ==
  /\ WritesNow(j) /\ i \in 1..Len(inflight) /\ i # j
  /\ inflight[i].done /\ inflight[j].readAt < inflight[i].wroteAt
  /\ inflight[i].req.writeOk /\ inflight'[j].req.writeOk

IsAdd(r) == r.req.route = "projects/new"
IsDelete(r) == r.req.route = "projects/[id]"
Titles(data) == {data.projectItems.s[n].title : n \in 1..Len(data.projectItems.s)}
ItemIds(data) == {data.projectItems.s[n].id : n \in 1..Len(data.projectItems.s)}

\* the document holds what request r makes of the document `seen`, and nothing else
ReflectsOnly(data, r, seen) ==
  /\ data.initialFiles = seen.initialFiles
  /\ IsAdd(r) =>
       /\ Len(data.projectItems.s) = Len(seen.projectItems.s) + 1
       /\ SubSeq(data.projectItems.s, 1, Len(seen.projectItems.s)) = seen.projectItems.s
       /\ data.projectItems.s[Len(data.projectItems.s)].title = r.req.body.title
  /\ IsDelete(r) =>
       data.projectItems.s =
         SelectSeq(seen.projectItems.s, LAMBDA item : item.id # JsStr(r.req.id))

\* what request `early` did is not in the document: the project it added is
\* not there, the project it deleted is there
Undone(data, early) ==
  /\ IsAdd(early) => early.req.body.title \notin Titles(data)
  /\ IsDelete(early) => JsStr(early.req.id) \in ItemIds(data)

\* request `late` does not itself do what request `early` did, and early had
\* something to do on the document that late read
Distinct(early, late, seen) ==
  /\ IsAdd(early) =>
       /\ early.req.body.title \notin Titles(seen)
       /\ ~(IsAdd(late) /\ late.req.body.title = early.req.body.title)
  /\ IsDelete(early) =>
       /\ JsStr(early.req.id) \in ItemIds(seen)
       /\ ~(IsDelete(late) /\ late.req.id = early.req.id)

\* C26: project add and delete are unsynchronised read-modify-write
\* operations on projects.json: when two authenticated requests both read
\* the document before either writes it, both are answered success, and the
\* stored document reflects only the later write: the project the earlier
\* request added is lost, the project it deleted is back.
C26_LostUpdate ==
  [][\A i \in 1..Len(inflight), j \in 1..Len(inflight) :
       Raced(i, j) =>
         LET early == inflight[i]
             late == inflight'[j]
             seen == readDataFile(late.read, env, "projects.json").data
             after == ProjectsRead(docs')
         IN /\ early.resp.success /\ late.resp.success
            /\ ReflectsOnly(after, late, seen)
            /\ Distinct(early, late, seen) => Undone(after, early)]_vars

\* two requests read the bundled list, the first deleted p1 and was answered
\* success, then the second added N and was answered success: p1 is back
C26_Witness ==
  /\ Len(inflight) = 2
  /\ inflight[1].done /\ inflight[2].done
  /\ inflight[2].readAt < inflight[1].wroteAt /\ inflight[1].wroteAt < inflight[2].wroteAt
  /\ IsDelete(inflight[1]) /\ inflight[1].req.id = <<"p", "1">> /\ inflight[1].resp.success
  /\ IsAdd(inflight[2]) /\ inflight[2].req.body.title = JsStr(<<"N">>)
  /\ inflight[2].resp.success
  /\ JsStr(<<"p", "1">>) \in ItemIds(ProjectsRead(docs))
  /\ JsStr(<<"N">>) \in Titles(ProjectsRead(docs))

(***************************************************************************)
(* Specification of the session token: browsers log in and out, and any    *)
(* client presents any token it has got hold of, to GET /api/admin/verify  *)
(* and to a mutating admin route                                           *)
(***************************************************************************)
EnvShortDev == [EnvShortSession EXCEPT !.JWT_SECRET = ""]

InitSession ==
  /\ InitCommon
  /\ rateLimitStore = EmptyStore
  /\ env \in {EnvShortSession, EnvShortDev}
  /\ pc = "run"

\* a browser that holds no cookie logs in with the password
SessionLogin ==
  /\ pc = "run"
  /\ \E b \in Browsers :
       LET req == LoginReq(b, 100, LoginBody("object", JsStr(AdminPassword)))
           out == LoginPOST(rateLimitStore, now, env, req)
       IN /\ jar[b] = NoCookie
          /\ rateLimitStore' = out.store
          /\ resp' = out.resp
          /\ jar' = IF out.resp.cookieSet THEN [jar EXCEPT ![b] = out.cookie] ELSE jar
          /\ issued' = IF out.resp.cookieSet THEN issued \cup {out.cookie.value} ELSE issued
          /\ session' = [session EXCEPT ![b] = @ \/ out.resp.status = 200]
          /\ NoteRequest(<<"login", getClientIP(req)>>, now, LOGIN_WINDOW, LOGIN_MAX)
  /\ UNCHANGED <<now, nticks, env, docs, files, pc, lastWritten, inflight>>

\* the browser at ClientIP logs out; the other browser stays logged in
SessionLogout ==
  /\ pc = "run"
  /\ resp' = LogoutPOST(PlainReq("logout", ClientIP))
  /\ jar' = [jar EXCEPT ![ClientIP] = removeAdminCookie(@)]
  /\ session' = [session EXCEPT ![ClientIP] = FALSE]
  /\ UNCHANGED <<now, nticks, rateLimitStore, env, winStart, winCount, docs, files, pc,
                 lastWritten, inflight, issued>>

\* the tokens a client can present: every token a login issued, kept or
\* copied; what its browser attaches; a token signed with another secret, one
\* signed with the fallback secret, one whose payload has admin false; none
NonAdminToken == [createAdminToken(env, now) EXCEPT !.admin = FALSE]
FallbackToken == [createAdminToken(env, now) EXCEPT !.secret = FALLBACK_SECRET]
PresentedTokens ==
  issued \cup {RequestCookie(jar[b], now) : b \in Browsers}
         \cup {ForgedToken, FallbackToken, NonAdminToken, NoToken}

TokenReq(route, b, token) == [route |-> route, browser |-> b, token |-> token]

PresentToVerify ==
  /\ pc = "run"
  /\ \E token \in PresentedTokens :
       resp' = VerifyGET(token, now, env, TokenReq("verify", ClientIP, token))
  /\ UNCHANGED <<now, nticks, rateLimitStore, env, winStart, winCount, jar, session, docs,
                 files, pc, lastWritten, inflight, issued>>

PresentToRoute ==
  /\ pc = "run"
  /\ \E token \in PresentedTokens :
       LET out == ProjectDELETE(docs, now, env, DeleteReq(ClientIP, token, AbsentId, TRUE))
       IN docs' = out.docs /\ resp' = out.resp /\ lastWritten' = NoteWrites(out.docs)
  /\ UNCHANGED <<now, nticks, rateLimitStore, env, winStart, winCount, jar, session, files, pc,
                 inflight, issued>>

NextSession ==
  SessionLogin \/ SessionLogout \/ PresentToVerify \/ PresentToRoute \/ TickAuth

SpecSession == InitSession /\ [][NextSession]_vars

(***************************************************************************)
(* Properties of the session token                                         *)
(***************************************************************************)
\* the step answers a request that presented a token
PresentStep == resp' # resp /\ resp'.route \in {"verify", "projects/[id]"}

\* the step answers a logout
LogoutStep == resp'.route = "logout" /\ jar' # jar

\* the answer takes the caller for the admin
Accepted(r) == IF r.route = "verify" THEN r.authenticated ELSE r.status # 401

\* signed with the server secret, unexpired at time t, payload admin === true
Genuine(token, t) ==
  /\ token.secret = (IF env.JWT_SECRET # "" THEN env.JWT_SECRET ELSE FALLBACK_SECRET)
  /\ t \div 1000 < token.exp
  /\ token.admin = TRUE

\* no browser holds the token any more
Discarded(token) == \A b \in Browsers : jar[b].value # token

\* C27: logout does not revoke the session token: the server keeps no
\* session state and removeAdminCookie only deletes the caller's cookie, so
\* a token that a successful login issued is accepted by verifyAdmin and by
\* the admin routes when presented after logout, at any time before its
\* expiry.  Conversely a token is accepted only if it is signed with the
\* server secret, unexpired and has admin === true; every other token is
\* answered as not authenticated, without an error.
C27_LogoutDoesNotRevoke ==
  /\ [][PresentStep =>
          LET token == resp'.req.token
          IN /\ Accepted(resp') <=> Genuine(token, now)
             /\ resp'.status # 500
             /\ resp'.route = "verify" => resp'.status = 200
             /\ token \in issued /\ now \div 1000 < token.exp => Accepted(resp')]_vars
  /\ [][LogoutStep =>
          /\ \E b \in Browsers : \A other \in Browsers \ {b} : jar'[other] = jar[other]
          /\ issued' = issued /\ rateLimitStore' = rateLimitStore
          /\ docs' = docs /\ files' = files /\ env' = env]_vars

\* the browser at ClientIP has logged out, the other browser never logged
\* in, time has passed, and the token of the login was presented and accepted
\* by the verify route
C27_Witness ==
  /\ resp.route = "verify" /\ resp.authenticated
  /\ resp.req.token \in issued
  /\ Discarded(resp.req.token)
  /\ \A b \in Browsers : jar[b] = NoCookie /\ ~session[b]
  /\ now > 0

====
